---- MODULE Spec2Model ----
(***************************************************************************)
(* AmisEscrowManager: the escrow contract of amis-bot-v2.                  *)
(*                                                                         *)
(* One transaction of the contract is one action, except a settlement      *)
(* (approveDelivery, releaseAfterTimeout, resolveDispute): its external    *)
(* calls hand control to the recipient, so a settlement is split at each   *)
(* `call{value: ...}`.  While it is in flight (tx # NoTx) the only code    *)
(* that runs is code the recipient runs, which may call back into the      *)
(* contract.  A failed require reverts: the state of the enclosing         *)
(* transaction is put back to what it was when the transaction started.    *)
(***************************************************************************)
EXTENDS Integers, Sequences, FiniteSets

\* ---- program constants (part_002) ----
FEE_BPS == 250
TOTAL_FEE_BPS == 500
BOT_SHARE_BPS == 100
releaseTimeout == 86400

\* ---- bounds of the model ----
MaxTrades == 1
MaxFailures == 1
MaxWideAmount == 400

\* ---- addresses ----
ZERO == "0x0"
bot == "bot"
feeReceiver == "feeReceiver"
Users == {"alice", "bob"}
Addr == {ZERO, bot, feeReceiver} \cup Users
Callers == Addr \ {ZERO}
Buyers == {"alice"}
Sellers == {ZERO, bot} \cup Users

\* ---- input sets ----
Ids == 0..(MaxTrades + 2)
Amounts == {0, 1000}
ShareBps == {0, 4000, 6000, 10000}
WideAmounts == (0..MaxWideAmount) \cup {1000}
Clock == {1, 1 + releaseTimeout}
\* Amounts whose fee is 0 (below 40), 1 (40) and 25 (1000).
EdgeAmounts == {1, 2, 39, 40, 1000}
FineClock == {1, 2, releaseTimeout, 1 + releaseTimeout, 2 + releaseTimeout, 3 + releaseTimeout}

VARIABLES
    tradeCount,    \* uint256 tradeCount
    trades,        \* mapping(uint256 => Trade)
    held,          \* address(this).balance
    received,      \* value each address has been sent by the contract
    ledger,        \* per trade: value attached at funding, value sent per leg
    events,        \* the event log, per indexed tradeId
    now,           \* block.timestamp
    guardEntered,  \* ReentrancyGuard's status
    tx,            \* the settlement in flight, or NoTx
    returned,      \* the value the last successful createAndFundTrade returned
    opCaller,      \* msg.sender of the last call that passed onlyBot
    failures       \* per trade: settlements that failed with "... transfer failed"

vars == <<tradeCount, trades, held, received, ledger, events, now, guardEntered, tx, returned,
         opCaller, failures>>
store == <<tradeCount, trades, held, received, ledger, events>>

NoTx == [op |-> "none"]

ZeroTrade ==
    [tradeId |-> 0, buyer |-> ZERO, seller |-> ZERO, amount |-> 0,
     status |-> "Created", deliveryTimestamp |-> 0,
     pendingBotFee |-> 0, pendingfeeReceiverFee |-> 0]

ZeroLedger ==
    [valueSent |-> 0, buyer |-> 0, seller |-> 0, bot |-> 0, feeReceiver |-> 0,
     settled |-> 0]

Event(name, who, amount, botFee, feeReceiverFee) ==
    [name |-> name, who |-> who, amount |-> amount,
     botFee |-> botFee, feeReceiverFee |-> feeReceiverFee]

\* ---- fee arithmetic ----
FeeOf(amount) == (amount * FEE_BPS) \div 10000
BotShareOf(fee) == (fee * BOT_SHARE_BPS) \div TOTAL_FEE_BPS
ShareOf(distributable, shareBps) == (distributable * shareBps) \div 10000

ValidId(tradeId) == tradeId > 0 /\ tradeId <= tradeCount

Init ==
    /\ tradeCount = 0
    /\ trades = [i \in Ids |-> ZeroTrade]
    /\ held = 0
    /\ received = [a \in Addr |-> 0]
    /\ ledger = [i \in Ids |-> ZeroLedger]
    /\ events = [i \in Ids |-> <<>>]
    /\ now = 1
    /\ guardEntered = FALSE
    /\ tx = NoTx
    /\ returned = 0
    /\ opCaller = "none"
    /\ failures = [i \in Ids |-> 0]

\* A call whose require fails reverts and leaves no trace in the state: it is a
\* stuttering step.  Each operation is therefore enabled exactly when all its
\* requires pass; what the caller of a failing call gets back is the error that
\* the operation's ...Err operator gives, "ok" when no require fails.

\* ---- createAndFundTrade ----
\* Mutant: an overpaid call is accepted.
createAndFundTradeErr_AllowsOverpay(sender, _seller, _tradeAmount, value) ==
    IF guardEntered THEN "ReentrantCall"
    ELSE IF _seller = ZERO THEN "InvalidParty"
    ELSE IF sender = _seller THEN "InvalidParty"
    ELSE IF ~(_tradeAmount > 0) THEN "InvalidAmount"
    ELSE IF value < _tradeAmount + FeeOf(_tradeAmount) THEN "IncorrectFunding"
    ELSE "ok"

\* Mutant: the buyer may name itself as seller.
createAndFundTradeErr_NoSelfCheck(sender, _seller, _tradeAmount, value) ==
    IF guardEntered THEN "ReentrantCall"
    ELSE IF _seller = ZERO THEN "InvalidParty"
    ELSE IF ~(_tradeAmount > 0) THEN "InvalidAmount"
    ELSE IF value # _tradeAmount + FeeOf(_tradeAmount) THEN "IncorrectFunding"
    ELSE "ok"

createAndFundTradeErr(sender, _seller, _tradeAmount, value) ==
    IF guardEntered THEN "ReentrantCall"
    ELSE IF _seller = ZERO THEN "InvalidParty"
    ELSE IF sender = _seller THEN "InvalidParty"
    ELSE IF ~(_tradeAmount > 0) THEN "InvalidAmount"
    ELSE IF value # _tradeAmount + FeeOf(_tradeAmount) THEN "IncorrectFunding"
    ELSE "ok"

\* Mutant: the operator's share of the buyer-side fee is not recorded.
NewTrade_NoBotFee(id, sender, _seller, _tradeAmount) ==
    LET buyerFee == FeeOf(_tradeAmount)
        botFee == BotShareOf(buyerFee)
    IN  [tradeId |-> id, buyer |-> sender, seller |-> _seller,
         amount |-> _tradeAmount, status |-> "Funded", deliveryTimestamp |-> 0,
         pendingBotFee |-> 0, pendingfeeReceiverFee |-> buyerFee - botFee]

NewTrade(id, sender, _seller, _tradeAmount) ==
    LET buyerFee == FeeOf(_tradeAmount)
        botFee == BotShareOf(buyerFee)
        feeReceiverFee == buyerFee - botFee
    IN  [tradeId |-> id, buyer |-> sender, seller |-> _seller,
         amount |-> _tradeAmount, status |-> "Funded", deliveryTimestamp |-> 0,
         pendingBotFee |-> botFee, pendingfeeReceiverFee |-> feeReceiverFee]

FundEvents(id, sender, _seller, _tradeAmount) ==
    LET buyerFee == FeeOf(_tradeAmount)
        botFee == BotShareOf(buyerFee)
    IN  << Event("Created", sender, _tradeAmount, 0, 0),
           Event("BuyerFeeSplit", ZERO, buyerFee, botFee, buyerFee - botFee),
           Event("Funded", sender, _tradeAmount, 0, 0) >>

\* Mutant: the id is read before the counter is incremented.
NextId_Stale == tradeCount

\* tradeCount++; id = tradeCount
NextId == tradeCount + 1

createAndFundTrade(sender, _seller, _tradeAmount, value) ==
    LET err == createAndFundTradeErr(sender, _seller, _tradeAmount, value)
        id == NextId
    IN  /\ err = "ok"
        /\ tradeCount' = id
        /\ trades' = [trades EXCEPT ![id] = NewTrade(id, sender, _seller, _tradeAmount)]
        /\ held' = held + value
        /\ ledger' = [ledger EXCEPT ![id].valueSent = value]
        /\ events' = [events EXCEPT ![id] = FundEvents(id, sender, _seller, _tradeAmount)]
        /\ returned' = id
        /\ UNCHANGED <<received, now, guardEntered, tx, opCaller, failures>>

\* ---- markDelivered ----
\* Mutant: no check of the current status.
markDeliveredErr_NoStateCheck(sender, tradeId) ==
    IF sender # bot THEN "OnlyBot"
    ELSE IF ~ValidId(tradeId) THEN "NotFound"
    ELSE "ok"

\* Mutant: no onlyBot modifier.
markDeliveredErr_AnyCaller(sender, tradeId) ==
    IF ~ValidId(tradeId) THEN "NotFound"
    ELSE IF trades[tradeId].status # "Funded" THEN "InvalidState"
    ELSE "ok"

markDeliveredErr(sender, tradeId) ==
    IF sender # bot THEN "OnlyBot"
    ELSE IF ~ValidId(tradeId) THEN "NotFound"
    ELSE IF trades[tradeId].status # "Funded" THEN "InvalidState"
    ELSE "ok"

markDelivered(sender, tradeId) ==
    LET err == markDeliveredErr(sender, tradeId)
    IN  /\ err = "ok"
        /\ trades' = [trades EXCEPT ![tradeId].status = "Delivered",
                               ![tradeId].deliveryTimestamp = now]
        /\ events' = [events EXCEPT ![tradeId] =
               Append(@, Event("Delivered", trades[tradeId].seller, 0, 0, 0))]
        /\ opCaller' = sender
        /\ UNCHANGED <<tradeCount, held, received, ledger, now, guardEntered, tx, returned,
                     failures>>

\* ---- transfers of a settlement ----
Leg(role, to, value) == [role |-> role, to |-> to, value |-> value]

\* What a revert puts back: the storage and balances at the start of the transaction.
Snapshot ==
    [tradeCount |-> tradeCount, trades |-> trades, held |-> held,
     received |-> received, ledger |-> ledger, events |-> events]

Frame(op, tradeId, legs, done) ==
    [op |-> op, id |-> tradeId, legs |-> legs, done |-> done, snap |-> Snapshot]

\* ---- _release ----
releaseErr(tradeId) ==
    IF ~ValidId(tradeId) THEN "NotFound"
    ELSE IF trades[tradeId].status = "Completed" THEN "AlreadyCompleted"
    ELSE "ok"

\* Mutant: only the operator's pending fee is zeroed.
ReleasedTrade_KeepsReceiverFee(t) ==
    [t EXCEPT !.status = "Completed", !.pendingBotFee = 0]

\* The trade after lines 182-199: completed, fees accrued, snapshotted and zeroed.
ReleasedTrade(t) ==
    [t EXCEPT !.status = "Completed", !.pendingBotFee = 0, !.pendingfeeReceiverFee = 0]

\* Mutant: the fees accrued at funding are not paid out with the seller-side fees.
ReleaseLegs_DropsPending(t) ==
    LET sellerFee == FeeOf(t.amount)
        payout == t.amount - sellerFee
        botFee == BotShareOf(sellerFee)
        feeReceiverFee == sellerFee - botFee
    IN  << Leg("seller", t.seller, payout),
           Leg("bot", bot, botFee),
           Leg("feeReceiver", feeReceiver, feeReceiverFee) >>

\* Mutant: the seller-side fee is not deducted from the seller's payout.
ReleaseLegs_PaysFullAmount(t) ==
    LET sellerFee == FeeOf(t.amount)
        botFee == BotShareOf(sellerFee)
        botAmount == t.pendingBotFee + botFee
        receiverAmount == t.pendingfeeReceiverFee + (sellerFee - botFee)
    IN  << Leg("seller", t.seller, t.amount),
           Leg("bot", bot, botAmount),
           Leg("feeReceiver", feeReceiver, receiverAmount) >>

\* Mutant: the fees are sent before the seller's payout.
ReleaseLegs_FeesFirst(t) ==
    LET sellerFee == FeeOf(t.amount)
        payout == t.amount - sellerFee
        botFee == BotShareOf(sellerFee)
        botAmount == t.pendingBotFee + botFee
        receiverAmount == t.pendingfeeReceiverFee + (sellerFee - botFee)
    IN  << Leg("bot", bot, botAmount),
           Leg("feeReceiver", feeReceiver, receiverAmount),
           Leg("seller", t.seller, payout) >>

\* Mutant: the operator's share is taken once, of the whole fee pool.
ReleaseLegs_PoolShare(t) ==
    LET sellerFee == FeeOf(t.amount)
        payout == t.amount - sellerFee
        pool == t.pendingBotFee + t.pendingfeeReceiverFee + sellerFee
        botAmount == BotShareOf(pool)
    IN  << Leg("seller", t.seller, payout),
           Leg("bot", bot, botAmount),
           Leg("feeReceiver", feeReceiver, pool - botAmount) >>

\* Mutant: a fee transfer of zero value is skipped.
ReleaseLegs_SkipsZeroFees(t) ==
    LET sellerFee == FeeOf(t.amount)
        payout == t.amount - sellerFee
        botFee == BotShareOf(sellerFee)
        botAmount == t.pendingBotFee + botFee
        receiverAmount == t.pendingfeeReceiverFee + (sellerFee - botFee)
    IN  << Leg("seller", t.seller, payout) >>
        \o (IF botAmount > 0 THEN <<Leg("bot", bot, botAmount)>> ELSE <<>>)
        \o (IF receiverAmount > 0
            THEN <<Leg("feeReceiver", feeReceiver, receiverAmount)>> ELSE <<>>)

ReleaseLegs(t) ==
    LET sellerFee == FeeOf(t.amount)
        payout == t.amount - sellerFee
        botFee == BotShareOf(sellerFee)
        feeReceiverFee == sellerFee - botFee
        botAmount == t.pendingBotFee + botFee
        receiverAmount == t.pendingfeeReceiverFee + feeReceiverFee
    IN  << Leg("seller", t.seller, payout),
           Leg("bot", bot, botAmount),
           Leg("feeReceiver", feeReceiver, receiverAmount) >>

ReleaseSplitEvent(t) ==
    LET sellerFee == FeeOf(t.amount)
        botFee == BotShareOf(sellerFee)
    IN  Event("SellerFeeSplit", ZERO, sellerFee, botFee, sellerFee - botFee)

ReleaseDoneEvents(t) ==
    << Event("Released", t.seller, t.amount - FeeOf(t.amount), 0, 0) >>

\* Mutant: the status and the pending fees are written after the transfers.
_release_FlipsLate(op, sender, tradeId, pre) ==
    LET t == trades[tradeId]
    IN  /\ trades' = trades
        /\ events' = [events EXCEPT ![tradeId] = @ \o pre \o <<ReleaseSplitEvent(t)>>]
        /\ tx' = Frame(op, tradeId, ReleaseLegs(t), ReleaseDoneEvents(t))
        /\ guardEntered' = TRUE
        /\ opCaller' = sender
        /\ UNCHANGED <<tradeCount, held, received, ledger, now, returned, failures>>

\* _release up to its first external call; `pre` is what the caller already emitted.
_release(op, sender, tradeId, pre) ==
    LET t == trades[tradeId]
    IN  /\ trades' = [trades EXCEPT ![tradeId] = ReleasedTrade(t)]
        /\ events' = [events EXCEPT ![tradeId] = @ \o pre \o <<ReleaseSplitEvent(t)>>]
        /\ tx' = Frame(op, tradeId, ReleaseLegs(t), ReleaseDoneEvents(t))
        /\ guardEntered' = TRUE
        /\ opCaller' = sender
        /\ UNCHANGED <<tradeCount, held, received, ledger, now, returned, failures>>

\* ---- approveDelivery ----
\* Mutant: the id is not checked against tradeCount.
approveDeliveryErr_NoIdCheck(sender, tradeId) ==
    IF sender # bot THEN "OnlyBot"
    ELSE IF guardEntered THEN "ReentrantCall"
    ELSE IF trades[tradeId].status # "Delivered" THEN "InvalidState"
    ELSE "ok"

\* Mutant: the lock is held per trade, for the trade being settled only.
approveDeliveryErr_PerTradeLock(sender, tradeId) ==
    IF sender # bot THEN "OnlyBot"
    ELSE IF guardEntered /\ tx.id = tradeId THEN "ReentrantCall"
    ELSE IF ~ValidId(tradeId) THEN "NotFound"
    ELSE IF trades[tradeId].status # "Delivered" THEN "InvalidState"
    ELSE releaseErr(tradeId)

approveDeliveryErr(sender, tradeId) ==
    IF sender # bot THEN "OnlyBot"
    ELSE IF guardEntered THEN "ReentrantCall"
    ELSE IF ~ValidId(tradeId) THEN "NotFound"
    ELSE IF trades[tradeId].status # "Delivered" THEN "InvalidState"
    ELSE releaseErr(tradeId)

approveDelivery(sender, tradeId) ==
    LET err == approveDeliveryErr(sender, tradeId)
    IN  /\ err = "ok"
        /\ _release("approveDelivery", sender, tradeId,
                    <<Event("Approved", trades[tradeId].buyer, 0, 0, 0)>>)

\* ---- releaseAfterTimeout ----
\* Mutant: the timeout also releases a Disputed trade.
releaseAfterTimeoutErr_AlsoDisputed(sender, tradeId) ==
    IF sender # bot THEN "OnlyBot"
    ELSE IF guardEntered THEN "ReentrantCall"
    ELSE IF ~ValidId(tradeId) THEN "NotFound"
    ELSE IF trades[tradeId].status \notin {"Delivered", "Disputed"} THEN "InvalidState"
    ELSE IF ~(now >= trades[tradeId].deliveryTimestamp + releaseTimeout)
         THEN "TimeoutNotReached"
    ELSE releaseErr(tradeId)

\* Mutant: the release is allowed only strictly after the timeout.
releaseAfterTimeoutErr_StrictlyAfter(sender, tradeId) ==
    IF sender # bot THEN "OnlyBot"
    ELSE IF guardEntered THEN "ReentrantCall"
    ELSE IF ~ValidId(tradeId) THEN "NotFound"
    ELSE IF trades[tradeId].status # "Delivered" THEN "InvalidState"
    ELSE IF ~(now > trades[tradeId].deliveryTimestamp + releaseTimeout)
         THEN "TimeoutNotReached"
    ELSE releaseErr(tradeId)

releaseAfterTimeoutErr(sender, tradeId) ==
    IF sender # bot THEN "OnlyBot"
    ELSE IF guardEntered THEN "ReentrantCall"
    ELSE IF ~ValidId(tradeId) THEN "NotFound"
    ELSE IF trades[tradeId].status # "Delivered" THEN "InvalidState"
    ELSE IF ~(now >= trades[tradeId].deliveryTimestamp + releaseTimeout)
         THEN "TimeoutNotReached"
    ELSE releaseErr(tradeId)

releaseAfterTimeout(sender, tradeId) ==
    LET err == releaseAfterTimeoutErr(sender, tradeId)
    IN  /\ err = "ok"
        /\ _release("releaseAfterTimeout", sender, tradeId, <<>>)

\* ---- openDispute ----
\* Mutant: a dispute may be opened in any status.
openDisputeErr_NoStateCheck(sender, tradeId, raisedBy) ==
    IF sender # bot THEN "OnlyBot"
    ELSE IF ~ValidId(tradeId) THEN "NotFound"
    ELSE IF ~(raisedBy = trades[tradeId].buyer \/ raisedBy = trades[tradeId].seller)
         THEN "InvalidParty"
    ELSE "ok"

\* Mutant: a dispute may also be opened on a Completed trade.
openDisputeErr_AlsoCompleted(sender, tradeId, raisedBy) ==
    IF sender # bot THEN "OnlyBot"
    ELSE IF ~ValidId(tradeId) THEN "NotFound"
    ELSE IF trades[tradeId].status \notin {"Delivered", "Completed"} THEN "InvalidState"
    ELSE IF ~(raisedBy = trades[tradeId].buyer \/ raisedBy = trades[tradeId].seller)
         THEN "InvalidParty"
    ELSE "ok"

\* Mutant: anyone may be named as the raiser of the dispute.
openDisputeErr_AnyRaiser(sender, tradeId, raisedBy) ==
    IF sender # bot THEN "OnlyBot"
    ELSE IF ~ValidId(tradeId) THEN "NotFound"
    ELSE IF trades[tradeId].status # "Delivered" THEN "InvalidState"
    ELSE "ok"

openDisputeErr(sender, tradeId, raisedBy) ==
    IF sender # bot THEN "OnlyBot"
    ELSE IF ~ValidId(tradeId) THEN "NotFound"
    ELSE IF trades[tradeId].status # "Delivered" THEN "InvalidState"
    ELSE IF ~(raisedBy = trades[tradeId].buyer \/ raisedBy = trades[tradeId].seller)
         THEN "InvalidParty"
    ELSE "ok"

\* Mutant: opening a dispute stamps the time again.
openDispute_Restamps(sender, tradeId, raisedBy) ==
    LET err == openDisputeErr(sender, tradeId, raisedBy)
    IN  /\ err = "ok"
        /\ trades' = [trades EXCEPT ![tradeId].status = "Disputed",
                               ![tradeId].deliveryTimestamp = now]
        /\ events' = [events EXCEPT ![tradeId] =
               Append(@, Event("Disputed", raisedBy, 0, 0, 0))]
        /\ opCaller' = sender
        /\ UNCHANGED <<tradeCount, held, received, ledger, now, guardEntered, tx, returned,
                     failures>>

\* Mutant: the status is written to the latest trade instead of trades[tradeId].
openDispute_LatestTrade(sender, tradeId, raisedBy) ==
    LET err == openDisputeErr(sender, tradeId, raisedBy)
    IN  /\ err = "ok"
        /\ trades' = [trades EXCEPT ![tradeCount].status = "Disputed"]
        /\ events' = [events EXCEPT ![tradeId] =
               Append(@, Event("Disputed", raisedBy, 0, 0, 0))]
        /\ opCaller' = sender
        /\ UNCHANGED <<tradeCount, held, received, ledger, now, guardEntered, tx, returned,
                     failures>>

openDispute(sender, tradeId, raisedBy) ==
    LET err == openDisputeErr(sender, tradeId, raisedBy)
    IN  /\ err = "ok"
        /\ trades' = [trades EXCEPT ![tradeId].status = "Disputed"]
        /\ events' = [events EXCEPT ![tradeId] =
               Append(@, Event("Disputed", raisedBy, 0, 0, 0))]
        /\ opCaller' = sender
        /\ UNCHANGED <<tradeCount, held, received, ledger, now, guardEntered, tx, returned,
                     failures>>

\* ---- resolveDispute ----
\* Mutant: a dispute may be resolved in any status.
resolveDisputeErr_NoStateCheck(sender, tradeId, buyerShareBps, sellerShareBps) ==
    IF sender # bot THEN "OnlyBot"
    ELSE IF guardEntered THEN "ReentrantCall"
    ELSE IF ~ValidId(tradeId) THEN "NotFound"
    ELSE IF buyerShareBps + sellerShareBps # 10000 THEN "InvalidSplit"
    ELSE "ok"

\* Mutant: the shares are not required to sum to 10000.
resolveDisputeErr_NoSplitCheck(sender, tradeId, buyerShareBps, sellerShareBps) ==
    IF sender # bot THEN "OnlyBot"
    ELSE IF guardEntered THEN "ReentrantCall"
    ELSE IF ~ValidId(tradeId) THEN "NotFound"
    ELSE IF trades[tradeId].status # "Disputed" THEN "InvalidState"
    ELSE "ok"

resolveDisputeErr(sender, tradeId, buyerShareBps, sellerShareBps) ==
    IF sender # bot THEN "OnlyBot"
    ELSE IF guardEntered THEN "ReentrantCall"
    ELSE IF ~ValidId(tradeId) THEN "NotFound"
    ELSE IF trades[tradeId].status # "Disputed" THEN "InvalidState"
    ELSE IF buyerShareBps + sellerShareBps # 10000 THEN "InvalidSplit"
    ELSE "ok"

\* Mutant: a resolution pays out its own fee only, not the fee pending since funding.
ResolveLegs_NoPending(t, buyerShareBps, sellerShareBps) ==
    LET totalFee == FeeOf(t.amount)
        distributable == t.amount - totalFee
        buyerPayout == ShareOf(distributable, buyerShareBps)
        sellerPayout == ShareOf(distributable, sellerShareBps)
        botFee == BotShareOf(totalFee)
    IN  (IF buyerPayout > 0 THEN <<Leg("buyer", t.buyer, buyerPayout)>> ELSE <<>>)
        \o (IF sellerPayout > 0 THEN <<Leg("seller", t.seller, sellerPayout)>> ELSE <<>>)
        \o << Leg("bot", bot, botFee),
              Leg("feeReceiver", feeReceiver, totalFee - botFee) >>

\* Mutant: the shares of buyer and seller are rounded up.
ResolveLegs_RoundsUp(t, buyerShareBps, sellerShareBps) ==
    LET totalFee == FeeOf(t.amount)
        distributable == t.amount - totalFee
        buyerPayout == (distributable * buyerShareBps + 9999) \div 10000
        sellerPayout == (distributable * sellerShareBps + 9999) \div 10000
        botFee == BotShareOf(totalFee)
        botAmount == t.pendingBotFee + botFee
        receiverAmount == t.pendingfeeReceiverFee + (totalFee - botFee)
    IN  (IF buyerPayout > 0 THEN <<Leg("buyer", t.buyer, buyerPayout)>> ELSE <<>>)
        \o (IF sellerPayout > 0 THEN <<Leg("seller", t.seller, sellerPayout)>> ELSE <<>>)
        \o << Leg("bot", bot, botAmount),
              Leg("feeReceiver", feeReceiver, receiverAmount) >>

\* Mutant: the transfer to the buyer is made even when the payout is 0.
ResolveLegs_AlwaysPaysBuyer(t, buyerShareBps, sellerShareBps) ==
    LET totalFee == FeeOf(t.amount)
        distributable == t.amount - totalFee
        buyerPayout == ShareOf(distributable, buyerShareBps)
        sellerPayout == ShareOf(distributable, sellerShareBps)
        botFee == BotShareOf(totalFee)
        botAmount == t.pendingBotFee + botFee
        receiverAmount == t.pendingfeeReceiverFee + (totalFee - botFee)
    IN  <<Leg("buyer", t.buyer, buyerPayout)>>
        \o (IF sellerPayout > 0 THEN <<Leg("seller", t.seller, sellerPayout)>> ELSE <<>>)
        \o << Leg("bot", bot, botAmount),
              Leg("feeReceiver", feeReceiver, receiverAmount) >>

\* Mutant: the seller is paid what the buyer's payout leaves of the distributable.
ResolveLegs_SellerRemainder(t, buyerShareBps, sellerShareBps) ==
    LET totalFee == FeeOf(t.amount)
        distributable == t.amount - totalFee
        buyerPayout == ShareOf(distributable, buyerShareBps)
        sellerPayout == distributable - buyerPayout
        botFee == BotShareOf(totalFee)
        botAmount == t.pendingBotFee + botFee
        receiverAmount == t.pendingfeeReceiverFee + (totalFee - botFee)
    IN  (IF buyerPayout > 0 THEN <<Leg("buyer", t.buyer, buyerPayout)>> ELSE <<>>)
        \o (IF sellerPayout > 0 THEN <<Leg("seller", t.seller, sellerPayout)>> ELSE <<>>)
        \o << Leg("bot", bot, botAmount),
              Leg("feeReceiver", feeReceiver, receiverAmount) >>

ResolveLegs(t, buyerShareBps, sellerShareBps) ==
    LET totalFee == FeeOf(t.amount)
        distributable == t.amount - totalFee
        buyerPayout == ShareOf(distributable, buyerShareBps)
        sellerPayout == ShareOf(distributable, sellerShareBps)
        botFee == BotShareOf(totalFee)
        feeReceiverFee == totalFee - botFee
        botAmount == t.pendingBotFee + botFee
        receiverAmount == t.pendingfeeReceiverFee + feeReceiverFee
    IN  (IF buyerPayout > 0 THEN <<Leg("buyer", t.buyer, buyerPayout)>> ELSE <<>>)
        \o (IF sellerPayout > 0 THEN <<Leg("seller", t.seller, sellerPayout)>> ELSE <<>>)
        \o << Leg("bot", bot, botAmount),
              Leg("feeReceiver", feeReceiver, receiverAmount) >>

ResolveDoneEvents(t, buyerShareBps, sellerShareBps) ==
    LET distributable == t.amount - FeeOf(t.amount)
    IN  << Event("Refunded", t.buyer, ShareOf(distributable, buyerShareBps), 0, 0),
           Event("Released", t.seller, ShareOf(distributable, sellerShareBps), 0, 0) >>

resolveDispute(sender, tradeId, buyerShareBps, sellerShareBps) ==
    LET err == resolveDisputeErr(sender, tradeId, buyerShareBps, sellerShareBps)
        t == trades[tradeId]
    IN  /\ err = "ok"
        /\ trades' = [trades EXCEPT ![tradeId] = ReleasedTrade(t)]
        /\ tx' = Frame("resolveDispute", tradeId,
                       ResolveLegs(t, buyerShareBps, sellerShareBps),
                       ResolveDoneEvents(t, buyerShareBps, sellerShareBps))
        /\ guardEntered' = TRUE
        /\ opCaller' = sender
        /\ UNCHANGED <<tradeCount, held, received, ledger, events, now, returned, failures>>

\* ---- the external calls of the settlement in flight ----
InFlight == tx # NoTx

\* `to.call{value: v}('')` returns true: the value has moved.
Pay(leg) ==
    /\ held >= leg.value
    /\ held' = held - leg.value
    /\ received' = [received EXCEPT ![leg.to] = @ + leg.value]

\* The books of the trade being settled, after a leg is paid.
Booked(leg) == [ledger EXCEPT ![tx.id][leg.role] = @ + leg.value]

\* The recipient accepts and a further call follows.
TransferAccepted ==
    /\ InFlight
    /\ Len(tx.legs) > 1
    /\ Pay(Head(tx.legs))
    /\ ledger' = Booked(Head(tx.legs))
    /\ tx' = [tx EXCEPT !.legs = Tail(@)]
    /\ UNCHANGED <<tradeCount, trades, events, now, guardEntered, returned, opCaller,
                 failures>>

\* The recipient of the last call accepts: the final events, and the call returns.
SettlementDone ==
    /\ InFlight
    /\ Len(tx.legs) = 1
    /\ Pay(Head(tx.legs))
    /\ ledger' = [Booked(Head(tx.legs)) EXCEPT ![tx.id].settled = @ + 1]
    /\ events' = [events EXCEPT ![tx.id] = @ \o tx.done]
    /\ tx' = NoTx
    /\ guardEntered' = FALSE
    /\ UNCHANGED <<tradeCount, trades, now, returned, opCaller, failures>>

\* Mutant: the transfers made before the failing one are not undone.
Revert_KeepsReceived ==
    /\ tradeCount' = tx.snap.tradeCount
    /\ trades' = tx.snap.trades
    /\ held' = tx.snap.held
    /\ received' = received
    /\ ledger' = tx.snap.ledger
    /\ events' = tx.snap.events
    /\ tx' = NoTx
    /\ guardEntered' = FALSE
    /\ UNCHANGED <<now, returned, opCaller>>

\* Mutant: the revert puts the balances back but not the trades.
Revert_KeepsTrades ==
    /\ tradeCount' = tx.snap.tradeCount
    /\ held' = tx.snap.held
    /\ received' = tx.snap.received
    /\ ledger' = tx.snap.ledger
    /\ events' = tx.snap.events
    /\ tx' = NoTx
    /\ guardEntered' = FALSE
    /\ UNCHANGED <<trades, now, returned, opCaller>>

\* The call returns false (the recipient reverts, or the balance is short):
\* require fails and the whole transaction is reverted.
Revert ==
    /\ tradeCount' = tx.snap.tradeCount
    /\ trades' = tx.snap.trades
    /\ held' = tx.snap.held
    /\ received' = tx.snap.received
    /\ ledger' = tx.snap.ledger
    /\ events' = tx.snap.events
    /\ tx' = NoTx
    /\ guardEntered' = FALSE
    /\ UNCHANGED <<now, returned, opCaller>>

RECURSIVE SumTo(_, _)
SumTo(f, n) == IF n < 0 THEN 0 ELSE f[n] + SumTo(f, n - 1)

TransferRejected ==
    /\ InFlight
    /\ SumTo(failures, MaxTrades + 2) < MaxFailures
    /\ Revert
    /\ failures' = [failures EXCEPT ![tx.id] = @ + 1]

\* Time passes between transactions; block.timestamp never goes back.
TickIn(clock) ==
    /\ ~InFlight
    /\ \E t \in clock : t > now /\ now' = t
    /\ UNCHANGED <<store, guardEntered, tx, returned, opCaller, failures>>

Tick == TickIn(Clock)

\* A call made while a settlement is in flight is made by code that the recipient
\* of the current transfer runs; any address may be the immediate caller.
Calls(maxTrades) ==
    \/ \E s \in Buyers, a \in Sellers, m \in Amounts, d \in {-1, 0, 1} :
          /\ tradeCount < maxTrades
          /\ m + FeeOf(m) + d >= 0
          /\ createAndFundTrade(s, a, m, m + FeeOf(m) + d)
    \/ \E s \in Callers, i \in Ids : markDelivered(s, i)
    \/ \E s \in Callers, i \in Ids : approveDelivery(s, i)
    \/ \E s \in Callers, i \in Ids : releaseAfterTimeout(s, i)
    \/ \E s \in Callers, i \in Ids, r \in Addr : openDispute(s, i, r)
    \/ \E s \in Callers, i \in Ids, b \in ShareBps, c \in ShareBps : resolveDispute(s, i, b, c)
    \/ TransferAccepted
    \/ SettlementDone
    \/ TransferRejected
    \/ Tick

\* At most MaxTrades trades.
Next == Calls(MaxTrades)

Spec == Init /\ [][Next]_vars

\* One trade more: operations on one trade while another exists.
NextTwo == Calls(MaxTrades + 1)

SpecTwo == Init /\ [][NextTwo]_vars

\* One trade between alice and bob, of any amount up to MaxWideAmount (and 1000),
\* taken through every operation: the fee arithmetic over a range of amounts.
NextWide ==
    \/ \E m \in WideAmounts, d \in {-1, 0, 1} :
          /\ tradeCount = 0
          /\ m + FeeOf(m) + d >= 0
          /\ createAndFundTrade("alice", "bob", m, m + FeeOf(m) + d)
    \/ \E s \in {bot, "bob"} : markDelivered(s, 1)
    \/ \E s \in {bot, "bob"} : approveDelivery(s, 1)
    \/ \E s \in {bot, "bob"} : releaseAfterTimeout(s, 1)
    \/ \E s \in {bot, "bob"}, r \in Users : openDispute(s, 1, r)
    \/ \E s \in {bot, "bob"}, b \in ShareBps, c \in ShareBps : resolveDispute(s, 1, b, c)
    \/ TransferAccepted
    \/ SettlementDone
    \/ TransferRejected
    \/ Tick

SpecWide == Init /\ [][NextWide]_vars

\* One trade between alice and bob under a clock that stops just before, at and
\* just after deliveryTimestamp + releaseTimeout.
NextClock ==
    \/ \E m \in {120, 1000} :
          /\ tradeCount = 0
          /\ createAndFundTrade("alice", "bob", m, m + FeeOf(m))
    \/ \E s \in {bot, "bob"} : markDelivered(s, 1)
    \/ \E s \in {bot, "bob"} : approveDelivery(s, 1)
    \/ \E s \in {bot, "bob"} : releaseAfterTimeout(s, 1)
    \/ \E s \in {bot, "bob"}, r \in Users : openDispute(s, 1, r)
    \/ \E s \in {bot, "bob"}, b \in ShareBps, c \in ShareBps : resolveDispute(s, 1, b, c)
    \/ TransferAccepted
    \/ SettlementDone
    \/ TransferRejected
    \/ TickIn(FineClock)

SpecClock == Init /\ [][NextClock]_vars

\* Trades between alice and bob of 120 and of 1000, one more than MaxTrades of
\* them, driven by the bot: settlements paid out of the one balance of the contract.
NextPair ==
    \/ \E m \in {120, 1000} :
          /\ tradeCount < MaxTrades + 1
          /\ createAndFundTrade("alice", "bob", m, m + FeeOf(m))
    \/ \E i \in 1..(MaxTrades + 1) : markDelivered(bot, i)
    \/ \E i \in 1..(MaxTrades + 1) : approveDelivery(bot, i)
    \/ \E i \in 1..(MaxTrades + 1) : releaseAfterTimeout(bot, i)
    \/ \E i \in 1..(MaxTrades + 1), r \in Users : openDispute(bot, i, r)
    \/ \E i \in 1..(MaxTrades + 1), b \in ShareBps, c \in ShareBps :
          resolveDispute(bot, i, b, c)
    \/ TransferAccepted
    \/ SettlementDone
    \/ TransferRejected
    \/ Tick

SpecPair == Init /\ [][NextPair]_vars

\* ---- recipients whose receive function always reverts ----
\* The call to a recipient outside `rejecting` returns true: the next call follows,
\* or after the last one the final events and the return.
Accepted(rejecting) ==
    /\ InFlight
    /\ Head(tx.legs).to \notin rejecting
    /\ IF Len(tx.legs) > 1 THEN TransferAccepted ELSE SettlementDone

\* The call to a recipient in `rejecting` returns false, whatever the value sent:
\* require fails and the transaction is reverted, as often as it is tried.
Rejected(rejecting) ==
    /\ InFlight
    /\ Head(tx.legs).to \in rejecting
    /\ Revert
    /\ failures' = [failures EXCEPT ![tx.id] = IF @ < MaxFailures THEN @ + 1 ELSE @]

\* One trade between alice and bob, of amounts on both sides of the first fee unit,
\* where the seller bob rejects every transfer; other recipients may fail as well.
NextSellerRejects ==
    \/ \E m \in EdgeAmounts :
          /\ tradeCount = 0
          /\ createAndFundTrade("alice", "bob", m, m + FeeOf(m))
    \/ \E s \in {bot, "bob"} : markDelivered(s, 1)
    \/ \E s \in {bot, "bob"} : approveDelivery(s, 1)
    \/ \E s \in {bot, "bob"} : releaseAfterTimeout(s, 1)
    \/ \E s \in {bot, "bob"}, r \in Users : openDispute(s, 1, r)
    \/ \E s \in {bot, "bob"}, b \in ShareBps, c \in ShareBps : resolveDispute(s, 1, b, c)
    \/ Accepted({"bob"})
    \/ Rejected({"bob"})
    \/ TransferRejected
    \/ Tick

SpecSellerRejects == Init /\ [][NextSellerRejects]_vars

\* The same trade where the fee receiver rejects every transfer and the bot may
\* reject any: the runs in which the bot's address rejects every transfer and
\* those in which the fee receiver's does are both among these.
NextFeeRejects ==
    \/ \E m \in EdgeAmounts :
          /\ tradeCount = 0
          /\ createAndFundTrade("alice", "bob", m, m + FeeOf(m))
    \/ \E s \in {bot, "bob"} : markDelivered(s, 1)
    \/ \E s \in {bot, "bob"} : approveDelivery(s, 1)
    \/ \E s \in {bot, "bob"} : releaseAfterTimeout(s, 1)
    \/ \E s \in {bot, "bob"}, r \in Users : openDispute(s, 1, r)
    \/ \E s \in {bot, "bob"}, b \in ShareBps, c \in ShareBps : resolveDispute(s, 1, b, c)
    \/ Accepted({feeReceiver})
    \/ Rejected({bot, feeReceiver})
    \/ Tick

SpecFeeRejects == Init /\ [][NextFeeRejects]_vars

\* ---------------------------------------------------------------------------
\* Properties
\* ---------------------------------------------------------------------------
\* What has been sent out for a trade, over all four kinds of recipient.
PaidOf(l) == l.buyer + l.seller + l.bot + l.feeReceiver
PaidOut(id) == PaidOf(ledger[id])

HasEvent(id, name) == \E k \in 1..Len(events[id]) : events[id][k].name = name

\* The trade's settlement has returned successfully.
Settled(id) == trades[id].status = "Completed" /\ ~(InFlight /\ tx.id = id)

\* C1: every trade that has reached Completed (approveDelivery, releaseAfterTimeout
\* or resolveDispute with shares summing to 10000) has paid out to buyer, seller,
\* operator and fee receiver exactly the value attached at funding: nothing of it
\* remains in the contract.
C1_Conservation ==
    \A id \in Ids : Settled(id) => ledger[id].valueSent = PaidOut(id)

\* C2: a trade is settled at most once: no settlement call succeeds on a trade
\* whose settlement has succeeded; the operator's call then fails with InvalidState
\* or AlreadyCompleted, and the value sent out for the trade never changes again.
C2_NoDoubleSettlement ==
    [][\A id \in Ids :
        /\ ledger'[id].settled <= 1
        /\ Settled(id) =>
              /\ \A s \in Callers :
                    /\ approveDeliveryErr(s, id) # "ok"
                    /\ releaseAfterTimeoutErr(s, id) # "ok"
                    /\ \A b \in ShareBps, c \in ShareBps :
                          resolveDisputeErr(s, id, b, c) # "ok"
              /\ ~guardEntered =>
                    /\ approveDeliveryErr(bot, id) \in {"InvalidState", "AlreadyCompleted"}
                    /\ releaseAfterTimeoutErr(bot, id) \in {"InvalidState", "AlreadyCompleted"}
                    /\ \A b \in ShareBps, c \in ShareBps :
                          resolveDisputeErr(bot, id, b, c)
                              \in {"InvalidState", "AlreadyCompleted"}
              /\ ledger'[id] = ledger[id]
              /\ Settled(id)'
      ]_vars

\* C2 witness: a second settlement call is made possible: a settled trade.
C2_Witness ==
    \E id \in Ids : Settled(id) /\ ledger[id].settled = 1 /\ ~InFlight

\* What the settlement in flight has sent to address a so far.
SentInFlight(a) ==
    LET l == ledger[tx.id]
        t == trades[tx.id]
    IN  (IF t.buyer = a THEN l.buyer ELSE 0) + (IF t.seller = a THEN l.seller ELSE 0)
        + (IF bot = a THEN l.bot ELSE 0) + (IF feeReceiver = a THEN l.feeReceiver ELSE 0)

\* Every leg of a completed trade has been paid: both fee recipients have the whole
\* fee pool between them, and buyer and seller have what is left of the amount
\* (a dispute split may round one unit away).
FullyPaid(id) ==
    LET fee == (trades[id].amount * 250) \div 10000
    IN  /\ ledger[id].settled = 1
        /\ ledger[id].bot + ledger[id].feeReceiver = 2 * fee
        /\ ledger[id].buyer + ledger[id].seller
               \in {trades[id].amount - fee - 1, trades[id].amount - fee}

\* C3: a settlement one of whose transfers fails is undone as a whole: the trade
\* is Delivered (resp. Disputed) again, its pending fees are the buyer-side fee split
\* they were before the call, every address and the contract hold what they held
\* before the call; and between transactions no Completed trade has unpaid legs.
C3_AllOrNothing ==
    [][/\ failures' # failures =>
            LET id == tx.id
                fee == (trades[id].amount * 250) \div 10000
            IN  /\ trades'[id].status =
                       (IF tx.op = "resolveDispute" THEN "Disputed" ELSE "Delivered")
                /\ trades'[id].pendingBotFee = (fee * 100) \div 500
                /\ trades'[id].pendingfeeReceiverFee = fee - (fee * 100) \div 500
                /\ \A a \in Addr : received'[a] = received[a] - SentInFlight(a)
                /\ held' = held + PaidOut(id)
                /\ PaidOf(ledger'[id]) = 0
       /\ ~InFlight' => \A id \in Ids : (trades[id].status = "Completed" => FullyPaid(id))'
      ]_vars

\* C3 witness: a settlement has failed on a transfer, and the trade is Disputed.
C3_Witness ==
    /\ ~InFlight
    /\ \E id \in Ids : failures[id] > 0 /\ trades[id].status = "Disputed"

Rank(status) ==
    CASE status = "Created" -> 0
      [] status = "Funded" -> 1
      [] status = "Delivered" -> 2
      [] status = "Disputed" -> 3
      [] status = "Completed" -> 4
      [] OTHER -> 5

\* The status of a trade as of the last transaction that returned.
CommittedStatus(id) ==
    IF InFlight THEN tx.snap.trades[id].status ELSE trades[id].status

\* C4: every status change is Funded->Delivered by markDelivered, Delivered->Completed
\* by approveDelivery or releaseAfterTimeout, Delivered->Disputed by openDispute or
\* Disputed->Completed by resolveDispute (or the entry at Funded, or the undoing of a
\* failed settlement); the operator's call in any other status fails with
\* InvalidState; the status a trade has between transactions never goes back.
C4_MonotonicStatus ==
    [][\A id \in Ids :
        LET a == trades[id].status
            b == trades'[id].status
        IN  /\ a # b =>
                 \/ a = "Created" /\ b = "Funded" /\ tradeCount' = id
                 \/ a = "Funded" /\ b = "Delivered" /\ markDelivered(bot, id)
                 \/ /\ a = "Delivered" /\ b = "Completed"
                    /\ approveDelivery(bot, id) \/ releaseAfterTimeout(bot, id)
                 \/ /\ a = "Delivered" /\ b = "Disputed"
                    /\ \E r \in Addr : openDispute(bot, id, r)
                 \/ /\ a = "Disputed" /\ b = "Completed"
                    /\ \E x \in ShareBps, y \in ShareBps : resolveDispute(bot, id, x, y)
                 \/ InFlight /\ ~InFlight' /\ trades' = tx.snap.trades
            /\ Rank(CommittedStatus(id)') >= Rank(CommittedStatus(id))
            /\ ValidId(id) =>
                 /\ a # "Funded" => markDeliveredErr(bot, id) = "InvalidState"
                 /\ a # "Delivered" =>
                       \A r \in Addr : openDisputeErr(bot, id, r) = "InvalidState"
                 /\ (a # "Delivered" /\ ~guardEntered) =>
                       /\ approveDeliveryErr(bot, id) = "InvalidState"
                       /\ releaseAfterTimeoutErr(bot, id) = "InvalidState"
                 /\ (a # "Disputed" /\ ~guardEntered) =>
                       \A x \in ShareBps, y \in ShareBps :
                           resolveDisputeErr(bot, id, x, y) = "InvalidState"
                 /\ a # "Delivered" => approveDeliveryErr(bot, id) # "ok"
                 /\ a # "Delivered" => releaseAfterTimeoutErr(bot, id) # "ok"
                 /\ a # "Disputed" =>
                       \A x \in ShareBps, y \in ShareBps :
                           resolveDisputeErr(bot, id, x, y) # "ok"
      ]_vars

\* C4 witness: a trade has gone Funded, Delivered, Disputed, Completed.
C4_Witness ==
    \E id \in Ids :
        /\ Settled(id)
        /\ HasEvent(id, "Delivered") /\ HasEvent(id, "Disputed") /\ HasEvent(id, "Refunded")

\* C5: once a trade's settlement has succeeded, no step changes any field of it.
C5_CompletedTerminal ==
    [][\A id \in Ids : Settled(id) => trades'[id] = trades[id]]_vars

\* C5 witness: a step is taken (a second trade is being settled) after a trade completed.
C5_Witness ==
    \E id \in Ids : Settled(id) /\ InFlight

\* C6: markDelivered, approveDelivery, releaseAfterTimeout, openDispute and
\* resolveDispute fail for every caller other than the bot, whatever the trade and
\* the arguments; every step that changes a trade or a balance without creating a
\* trade belongs to a call the bot made.
C6_OperatorOnly ==
    [][/\ \A s \in Callers \ {bot}, id \in Ids :
            /\ markDeliveredErr(s, id) = "OnlyBot"
            /\ approveDeliveryErr(s, id) = "OnlyBot"
            /\ releaseAfterTimeoutErr(s, id) = "OnlyBot"
            /\ \A r \in Addr : openDisputeErr(s, id, r) = "OnlyBot"
            /\ \A x \in ShareBps, y \in ShareBps : resolveDisputeErr(s, id, x, y) = "OnlyBot"
       /\ (tradeCount' = tradeCount /\ <<trades, held, received>>' # <<trades, held, received>>)
              => opCaller' = bot
      ]_vars

\* C6 witness: a Delivered trade that the bot could settle now, and whose buyer
\* and seller (neither of them the bot) are refused.
C6_Witness ==
    \E id \in Ids :
        /\ trades[id].status = "Delivered"
        /\ trades[id].buyer # bot /\ trades[id].seller # bot
        /\ opCaller = bot
        /\ approveDeliveryErr(bot, id) = "ok"
        /\ approveDeliveryErr(trades[id].buyer, id) = "OnlyBot"
        /\ \A r \in Addr : openDisputeErr(trades[id].seller, id, r) = "OnlyBot"

\* C7: a trade is created only with exactly amount + floor(amount * 250 / 10000)
\* attached, which the contract then holds; in the state in which it was created,
\* the call with any other value fails (IncorrectFunding when nothing else is wrong
\* with it).
C7_ExactFunding ==
    [][tradeCount' # tradeCount =>
         /\ LET t == trades'[tradeCount']
                 required == t.amount + (t.amount * 250) \div 10000
             IN  /\ held' = held + required
                 /\ ledger'[tradeCount'].valueSent = required
         /\ \A s \in Callers, a \in Addr, m \in WideAmounts :
              LET required == m + (m * 250) \div 10000
              IN  \A v \in {0, m, required - 1, required + 1, 2 * required} \ {required} :
                    /\ createAndFundTradeErr(s, a, m, v) # "ok"
                    /\ (a # ZERO /\ a # s /\ m > 0)
                           => createAndFundTradeErr(s, a, m, v) = "IncorrectFunding"
      ]_vars

\* C7 witness: a trade of 1000 has been funded with 1025, and calls with 1024 and
\* with 1026 are refused.
C7_Witness ==
    /\ tradeCount = 1 /\ held = 1025 /\ trades[1].amount = 1000
    /\ createAndFundTradeErr("alice", "bob", 1000, 1024) = "IncorrectFunding"
    /\ createAndFundTradeErr("alice", "bob", 1000, 1026) = "IncorrectFunding"
    /\ createAndFundTradeErr("alice", "bob", 399, 407) = "IncorrectFunding"

\* C8: createAndFundTrade fails with InvalidParty for the zero seller and for the
\* caller as seller, with InvalidAmount for amount 0; every recorded trade has
\* buyer # seller, seller # zero and amount > 0.
C8_PartyAmountValidation ==
    [][/\ \A s \in Callers, m \in Amounts, d \in {-1, 0, 1} :
            LET v == m + (m * 250) \div 10000 + d
            IN  ~guardEntered =>
                  /\ createAndFundTradeErr(s, ZERO, m, v) = "InvalidParty"
                  /\ createAndFundTradeErr(s, s, m, v) = "InvalidParty"
                  /\ \A a \in Addr \ {ZERO, s} :
                        createAndFundTradeErr(s, a, 0, v) = "InvalidAmount"
       /\ \A id \in 1..tradeCount' :
            /\ trades'[id].buyer # trades'[id].seller
            /\ trades'[id].seller # ZERO
            /\ trades'[id].amount > 0
       /\ \A id \in Ids \ (1..tradeCount') : trades'[id] = ZeroTrade
      ]_vars

\* C8 witness: a trade is recorded, and calls naming the zero address or the
\* caller as seller, or the amount 0, are refused.
C8_Witness ==
    /\ tradeCount = 1 /\ trades[1].seller = bot
    /\ createAndFundTradeErr("alice", ZERO, 1000, 1025) = "InvalidParty"
    /\ createAndFundTradeErr("alice", "alice", 1000, 1025) = "InvalidParty"
    /\ createAndFundTradeErr("alice", "bob", 0, 0) = "InvalidAmount"

\* The number of trades funded so far, by their Funded events.
FundedCount == Cardinality({i \in Ids : HasEvent(i, "Funded")})

\* C9: the k-th successful createAndFundTrade returns k; the new trade has the
\* caller as buyer, the given seller and amount, status Funded, deliveryTimestamp 0,
\* pendingBotFee = floor(buyerFee * 100 / 500) and the rest of buyerFee =
\* floor(amount * 250 / 10000) as pendingfeeReceiverFee.
C9_FundResult ==
    [][/\ returned' = FundedCount'
       /\ tradeCount' = FundedCount'
       /\ tradeCount' # tradeCount =>
            LET t == trades'[returned']
                buyerFee == (t.amount * 250) \div 10000
            IN  /\ returned' = returned + 1
                /\ t.tradeId = returned'
                /\ t.status = "Funded"
                /\ t.deliveryTimestamp = 0
                /\ t.pendingBotFee = (buyerFee * 100) \div 500
                /\ t.pendingfeeReceiverFee = buyerFee - (buyerFee * 100) \div 500
                /\ \E s \in Callers, a \in Addr, m \in Amounts :
                      /\ createAndFundTrade(s, a, m, m + (m * 250) \div 10000)
                      /\ t.buyer = s /\ t.seller = a /\ t.amount = m
                /\ \A id \in Ids \ {returned'} : trades'[id] = trades[id]
                /\ \A m \in WideAmounts :
                      LET n == NewTrade(returned', "alice", "bob", m)
                          fee == (m * 250) \div 10000
                      IN  /\ n.pendingBotFee = (fee * 100) \div 500
                          /\ n.pendingfeeReceiverFee = fee - (fee * 100) \div 500
                          /\ n.amount = m /\ n.status = "Funded"
                          /\ n.deliveryTimestamp = 0
      ]_vars

\* C9 witness: the second successful call has returned 2.
C9_Witness ==
    returned = 2 /\ trades[2].status = "Funded" /\ trades[2].pendingBotFee = 5

\* The trade was completed by approveDelivery or releaseAfterTimeout.
NormallySettled(id) == Settled(id) /\ HasEvent(id, "SellerFeeSplit")

\* C10: after a normal settlement the seller has been sent
\* amount - floor(amount * 250 / 10000) and bot and fee receiver together twice
\* that fee; a trade of 1000 is funded with 1025 and pays 975, 10 and 40.
C10_FeeDeterminism ==
    \A id \in Ids :
        NormallySettled(id) =>
            LET amount == trades[id].amount
                fee == (amount * 250) \div 10000
            IN  /\ ledger[id].seller = amount - fee
                /\ ledger[id].bot + ledger[id].feeReceiver = 2 * fee
                /\ ledger[id].buyer = 0
                /\ amount = 1000 =>
                      /\ ledger[id].valueSent = 1025
                      /\ ledger[id].seller = 975
                      /\ ledger[id].bot = 10
                      /\ ledger[id].feeReceiver = 40

\* C10 witness: a trade of 1000 completed by releaseAfterTimeout.
C10_Witness ==
    \E id \in Ids :
        /\ NormallySettled(id)
        /\ trades[id].amount = 1000
        /\ ~HasEvent(id, "Approved")

\* C11 as stated: the operator has been sent floor(totalFees * 100 / 500) of the
\* whole fee pool totalFees = 2 * floor(amount * 250 / 10000) of a settled trade,
\* and the fee receiver the rest of the pool.
C11_PoolShare ==
    \A id \in Ids :
        Settled(id) =>
            LET totalFees == 2 * ((trades[id].amount * 250) \div 10000)
            IN  /\ ledger[id].bot = (totalFees * 100) \div 500
                /\ ledger[id].feeReceiver = totalFees - (totalFees * 100) \div 500

\* C11 (amended): each side's fee floor(amount * 250 / 10000) is split on its own:
\* the operator of a settled trade has been sent 2 * floor(fee * 100 / 500) and the
\* fee receiver 2 * fee less that, whichever way the trade was settled.
C11_OperatorShare ==
    \A id \in Ids :
        Settled(id) =>
            LET fee == (trades[id].amount * 250) \div 10000
            IN  /\ ledger[id].bot = 2 * ((fee * 100) \div 500)
                /\ ledger[id].feeReceiver = 2 * fee - 2 * ((fee * 100) \div 500)

\* C11 witness: a settled trade of 120: each side's fee of 3 leaves the operator
\* nothing, where a fifth of the pool of 6 would be 1.
C11_Witness ==
    \E id \in Ids :
        /\ Settled(id) /\ trades[id].amount = 120
        /\ ledger[id].bot = 0 /\ ledger[id].feeReceiver = 6

\* The value of the leg for `role` among legs, 0 when there is none.
RECURSIVE LegValue(_, _)
LegValue(legs, role) ==
    IF legs = <<>> THEN 0
    ELSE (IF Head(legs).role = role THEN Head(legs).value ELSE 0)
         + LegValue(Tail(legs), role)

\* C12: a successful resolveDispute(id, b, c) on a Disputed trade sends
\* floor(d * b / 10000) to the buyer and floor(d * c / 10000) to the seller, with
\* totalFee = floor(amount * 250 / 10000) and d = amount - totalFee, and adds
\* floor(totalFee * 100 / 500) for the operator and the rest of totalFee for the
\* fee receiver to what was pending for them; for 1000 split 6000/4000 the buyer
\* gets 585, the seller 390 and the fee of 25 is split 5/20.
C12_DisputeSplit ==
    [][/\ \A id \in Ids, b \in ShareBps, c \in ShareBps :
            resolveDispute(bot, id, b, c) =>
                LET t == trades[id]
                    totalFee == (t.amount * 250) \div 10000
                    d == t.amount - totalFee
                IN  /\ t.status = "Disputed" /\ b + c = 10000
                    /\ LegValue(tx'.legs, "buyer") = (d * b) \div 10000
                    /\ LegValue(tx'.legs, "seller") = (d * c) \div 10000
                    /\ tx'.done[1].amount = (d * b) \div 10000
                    /\ tx'.done[2].amount = (d * c) \div 10000
                    /\ LegValue(tx'.legs, "bot")
                           = t.pendingBotFee + (totalFee * 100) \div 500
                    /\ LegValue(tx'.legs, "feeReceiver")
                           = t.pendingfeeReceiverFee + totalFee - (totalFee * 100) \div 500
                    /\ (t.amount = 1000 /\ b = 6000) =>
                           /\ LegValue(tx'.legs, "buyer") = 585
                           /\ LegValue(tx'.legs, "seller") = 390
                           /\ totalFee = 25
                           /\ LegValue(tx'.legs, "bot") - t.pendingBotFee = 5
                           /\ LegValue(tx'.legs, "feeReceiver") - t.pendingfeeReceiverFee = 20
       /\ (InFlight /\ tx.op = "resolveDispute" /\ ~InFlight' /\ failures' = failures) =>
            LET id == tx.id
                l == ledger'[id]
                before == tx.snap.trades[id]
                totalFee == (before.amount * 250) \div 10000
            IN  /\ l.buyer = tx.done[1].amount
                /\ l.seller = tx.done[2].amount
                /\ l.bot = before.pendingBotFee + (totalFee * 100) \div 500
                /\ l.feeReceiver
                       = before.pendingfeeReceiverFee + totalFee - (totalFee * 100) \div 500
      ]_vars

\* C12 witness: a dispute over 1000 resolved 6000/4000 has paid 585 and 390.
C12_Witness ==
    \E id \in Ids :
        /\ Settled(id) /\ trades[id].amount = 1000
        /\ ledger[id].buyer = 585 /\ ledger[id].seller = 390

\* What the bot's releaseAfterTimeout on a Delivered trade returns, by the clock.
GatedByClock ==
    \A id \in Ids :
        (trades[id].status = "Delivered" /\ ~guardEntered) =>
            /\ releaseAfterTimeoutErr(bot, id)
                   = (IF now < trades[id].deliveryTimestamp + 86400
                      THEN "TimeoutNotReached" ELSE "ok")
            /\ approveDeliveryErr(bot, id) = "ok"

\* C13: for a Delivered trade releaseAfterTimeout fails with TimeoutNotReached, and
\* no step is that call, while now < deliveryTimestamp + 86400; from
\* now = deliveryTimestamp + 86400 on it succeeds, completes the trade and sends
\* what approveDelivery sends; the outcome is a function of the clock at the call.
C13_TimeoutGating ==
    [][/\ GatedByClock /\ GatedByClock'
       /\ \A id \in Ids :
            LET t == trades[id]
                due == t.deliveryTimestamp + 86400
                fee == (t.amount * 250) \div 10000
            IN  (t.status = "Delivered" /\ ~guardEntered) =>
                  /\ now < due => ~releaseAfterTimeout(bot, id)
                  /\ (releaseAfterTimeout(bot, id) \/ approveDelivery(bot, id)) =>
                        /\ trades'[id].status = "Completed"
                        /\ Len(tx'.legs) = 3
                        /\ LegValue(tx'.legs, "seller") = t.amount - fee
                        /\ LegValue(tx'.legs, "bot") = 2 * ((fee * 100) \div 500)
                        /\ LegValue(tx'.legs, "feeReceiver")
                               = 2 * fee - 2 * ((fee * 100) \div 500)
       /\ (InFlight /\ tx.op = "releaseAfterTimeout" /\ ~InFlight' /\ failures' = failures) =>
            LET t == trades'[tx.id]
                fee == (t.amount * 250) \div 10000
            IN  /\ now >= t.deliveryTimestamp + 86400
                /\ t.status = "Completed"
                /\ ledger'[tx.id].seller = t.amount - fee
                /\ ledger'[tx.id].bot + ledger'[tx.id].feeReceiver = 2 * fee
      ]_vars

\* C13 witness: a trade delivered at 2, where the call was refused, has been
\* completed by releaseAfterTimeout at exactly 2 + 86400.
C13_Witness ==
    \E id \in Ids :
        /\ NormallySettled(id) /\ ~HasEvent(id, "Approved")
        /\ trades[id].deliveryTimestamp = 2
        /\ now = 2 + 86400

\* C14: a trade that is not Completed holds the buyer-side fee
\* floor(amount * 250 / 10000) in its two pending balances, and nothing has been
\* sent to operator or fee receiver for it; a Completed trade has both pending
\* balances 0 and, once its settlement has returned, both fee recipients paid in
\* full; the two balances are never one zeroed and the other still pending.
C14_PendingFees ==
    \A id \in 1..tradeCount :
        LET t == trades[id]
            fee == (t.amount * 250) \div 10000
        IN  /\ t.status # "Completed" =>
                  /\ t.pendingBotFee + t.pendingfeeReceiverFee = fee
                  /\ ledger[id].bot = 0 /\ ledger[id].feeReceiver = 0
            /\ t.status = "Completed" =>
                  /\ t.pendingBotFee = 0 /\ t.pendingfeeReceiverFee = 0
                  /\ Settled(id) =>
                        /\ ledger[id].bot + ledger[id].feeReceiver = 2 * fee
                        /\ ledger[id].bot >= (fee * 100) \div 500
                        /\ ledger[id].feeReceiver >= fee - (fee * 100) \div 500
            /\ \/ t.pendingBotFee = 0 /\ t.pendingfeeReceiverFee = 0
               \/ /\ t.pendingBotFee = (fee * 100) \div 500
                  /\ t.pendingfeeReceiverFee = fee - (fee * 100) \div 500

\* C14 witness: a dispute over 200 has been resolved: the pending fees 1 and 4 are
\* zero and operator and fee receiver have been sent 2 and 8.
C14_Witness ==
    \E id \in Ids :
        /\ Settled(id) /\ HasEvent(id, "Refunded") /\ trades[id].amount = 200
        /\ trades[id].pendingBotFee = 0 /\ trades[id].pendingfeeReceiverFee = 0
        /\ ledger[id].bot = 2 /\ ledger[id].feeReceiver = 8

\* What the contract still holds of the value attached to trades 1..n.
RECURSIVE RetainedTo(_)
RetainedTo(n) ==
    IF n < 1 THEN 0 ELSE ledger[n].valueSent - PaidOut(n) + RetainedTo(n - 1)

\* C15 as stated: between transactions, for every trade in any status,
\* amount + pendingfeeReceiverFee + pendingBotFee equals the value received at
\* funding less the payouts made for the trade.
C15_RetainedAnyStatus ==
    \A id \in 1..tradeCount :
        ~InFlight =>
            trades[id].amount + trades[id].pendingfeeReceiverFee + trades[id].pendingBotFee
                = ledger[id].valueSent - PaidOut(id)

\* C15 (amended): for every trade that is not Completed, amount plus the two pending
\* fees equals the value received at funding, and nothing has been paid out for it;
\* for a Completed trade the pending fees are 0, amount is unchanged, and the payouts
\* never exceed the value received: they equal it after approveDelivery or
\* releaseAfterTimeout and are at most 1 short of it after resolveDispute; the
\* contract's balance is the value received less the payouts, over all trades.
C15_RetainedValue ==
    /\ \A id \in 1..tradeCount :
          LET t == trades[id]
          IN  /\ t.status # "Completed" =>
                    /\ t.amount + t.pendingfeeReceiverFee + t.pendingBotFee
                           = ledger[id].valueSent
                    /\ PaidOut(id) = 0
              /\ t.status = "Completed" =>
                    /\ t.pendingfeeReceiverFee = 0 /\ t.pendingBotFee = 0
                    /\ t.amount + (t.amount * 250) \div 10000 = ledger[id].valueSent
                    /\ PaidOut(id) <= ledger[id].valueSent
                    /\ NormallySettled(id) => PaidOut(id) = ledger[id].valueSent
                    /\ Settled(id) => PaidOut(id) >= ledger[id].valueSent - 1
    /\ held = RetainedTo(tradeCount)

\* C15 witness: a Disputed trade of 400, one settlement of which has failed, holds
\* 400 + 2 + 8 of the 410 received; nothing has been paid.
C15_Witness ==
    \E id \in Ids :
        /\ trades[id].status = "Disputed" /\ trades[id].amount = 400
        /\ trades[id].pendingBotFee = 2 /\ trades[id].pendingfeeReceiverFee = 8
        /\ ledger[id].valueSent = 410 /\ PaidOut(id) = 0 /\ held = 410
        /\ failures[id] > 0

\* The bot's calls with an id that createAndFundTrade has not returned are refused,
\* and nothing is recorded at that id.
UnknownRefused ==
    \A id \in Ids :
        ~ValidId(id) =>
            /\ markDeliveredErr(bot, id) = "NotFound"
            /\ \A r \in Addr : openDisputeErr(bot, id, r) = "NotFound"
            /\ approveDeliveryErr(bot, id) # "ok"
            /\ releaseAfterTimeoutErr(bot, id) # "ok"
            /\ \A b \in ShareBps, c \in ShareBps : resolveDisputeErr(bot, id, b, c) # "ok"
            /\ ~guardEntered =>
                  /\ approveDeliveryErr(bot, id) = "NotFound"
                  /\ releaseAfterTimeoutErr(bot, id) = "NotFound"
                  /\ \A b \in ShareBps, c \in ShareBps :
                        resolveDisputeErr(bot, id, b, c) = "NotFound"
            /\ trades[id] = ZeroTrade /\ ledger[id] = ZeroLedger /\ events[id] = <<>>

\* C16: with id 0 or an id above tradeCount the bot's markDelivered,
\* approveDelivery, releaseAfterTimeout, openDispute and resolveDispute fail with
\* NotFound; the record at such an id changes only when createAndFundTrade
\* returns that id.
C16_UnknownIds ==
    [][/\ UnknownRefused /\ UnknownRefused'
       /\ \A id \in Ids :
            ~ValidId(id) =>
               (<<trades[id], ledger[id], events[id]>>' # <<trades[id], ledger[id], events[id]>>
                  => (id = tradeCount + 1 /\ tradeCount' = id /\ returned' = id))
      ]_vars

\* C16 witness: one trade exists and is Delivered; ids 0 and 2 are unknown.
C16_Witness ==
    /\ tradeCount = 1 /\ trades[1].status = "Delivered"
    /\ markDeliveredErr(bot, 0) = "NotFound"
    /\ approveDeliveryErr(bot, 2) = "NotFound"
    /\ trades[0] = ZeroTrade /\ trades[2] = ZeroTrade

\* The deliveryTimestamp of a trade as of the last transaction that returned.
CommittedTimestamp(id) ==
    IF InFlight THEN tx.snap.trades[id].deliveryTimestamp ELSE trades[id].deliveryTimestamp

\* C17: deliveryTimestamp is 0 while the trade is Funded and block.timestamp of the
\* markDelivered call from then on; it changes only by that call (or by the undoing
\* of a transaction that contained it), and between transactions only from 0.
C17_DeliveryTimestampOnce ==
    [][\A id \in Ids :
        LET t == trades[id]
        IN  /\ trades'[id].status \in {"Created", "Funded"} => trades'[id].deliveryTimestamp = 0
            /\ trades'[id].status \in {"Delivered", "Disputed", "Completed"}
                   => trades'[id].deliveryTimestamp \in Clock
            /\ trades'[id].deliveryTimestamp # t.deliveryTimestamp =>
                   \/ /\ markDelivered(bot, id)
                      /\ t.status = "Funded" /\ t.deliveryTimestamp = 0
                      /\ trades'[id].deliveryTimestamp = now
                      /\ trades'[id].status = "Delivered"
                   \/ InFlight /\ ~InFlight' /\ trades' = tx.snap.trades
            /\ CommittedTimestamp(id)' # CommittedTimestamp(id) => CommittedTimestamp(id) = 0
      ]_vars

\* C17 witness: a trade delivered at 1 was disputed, failed a settlement and was
\* resolved at 1 + 86400: its deliveryTimestamp is still 1.
C17_Witness ==
    \E id \in Ids :
        /\ Settled(id) /\ HasEvent(id, "Disputed") /\ failures[id] > 0
        /\ trades[id].deliveryTimestamp = 1 /\ now = 1 + 86400

\* What the bot's openDispute on a Delivered trade returns, by the raiser named.
RaiserChecked ==
    \A id \in Ids, r \in Addr :
        (ValidId(id) /\ trades[id].status = "Delivered") =>
            openDisputeErr(bot, id, r)
               = (IF r = trades[id].buyer \/ r = trades[id].seller
                  THEN "ok" ELSE "InvalidParty")

\* C18: for a Delivered trade the bot's openDispute(id, raisedBy) fails with
\* InvalidParty unless raisedBy is the trade's buyer or seller; a successful call
\* changes the trade's status to Disputed and no other field of any trade, and no
\* balance.
C18_OpenDisputeFrame ==
    [][\A id \in Ids, r \in Addr :
        /\ RaiserChecked /\ RaiserChecked'
        /\ openDispute(bot, id, r) =>
              /\ trades[id].status = "Delivered"
              /\ r = trades[id].buyer \/ r = trades[id].seller
              /\ trades' = [trades EXCEPT ![id].status = "Disputed"]
              /\ UNCHANGED <<tradeCount, held, received, ledger>>
      ]_vars

\* C18 witness: the seller's dispute has been opened on a trade delivered late.
C18_Witness ==
    \E id \in Ids :
        /\ trades[id].status = "Disputed" /\ ~InFlight
        /\ events[id][Len(events[id])] = Event("Disputed", trades[id].seller, 0, 0, 0)
        /\ trades[id].deliveryTimestamp = 1 + 86400

SplitBps == ShareBps \cup {1, 5000, 9999, 10001}

\* What the bot's resolveDispute on a Disputed trade returns, by the shares given.
SplitChecked ==
    \A id \in Ids :
        (ValidId(id) /\ trades[id].status = "Disputed" /\ ~guardEntered) =>
            \A b \in SplitBps, c \in SplitBps :
                resolveDisputeErr(bot, id, b, c)
                   = (IF b + c = 10000 THEN "ok" ELSE "InvalidSplit")

\* C19: for a Disputed trade the bot's resolveDispute with shares not summing to
\* 10000 fails with InvalidSplit and no step is that call; buyer and seller together
\* are never sent more than amount - floor(amount * 250 / 10000) by a resolution.
C19_InvalidSplit ==
    [][\A id \in Ids :
        /\ SplitChecked /\ SplitChecked'
        /\ \A b \in SplitBps, c \in SplitBps :
              resolveDispute(bot, id, b, c) => (b + c = 10000 /\ trades[id].status = "Disputed")
        /\ (InFlight' /\ tx'.op = "resolveDispute" /\ tx'.id = id) =>
              LegValue(tx'.legs, "buyer") + LegValue(tx'.legs, "seller")
                  + ledger'[id].buyer + ledger'[id].seller
                  <= trades[id].amount - (trades[id].amount * 250) \div 10000
        /\ ledger'[id].buyer > 0 =>
              ledger'[id].buyer + ledger'[id].seller
                  <= trades[id].amount - (trades[id].amount * 250) \div 10000
      ]_vars

\* C19 witness: a Disputed trade of 1000, for which 6000/6000 is refused and
\* 6000/4000 would be accepted.
C19_Witness ==
    \E id \in Ids :
        /\ trades[id].status = "Disputed" /\ ~InFlight
        /\ trades[id].amount = 1000 /\ trades[id].pendingBotFee = 5
        /\ resolveDisputeErr(bot, id, 6000, 6000) = "InvalidSplit"
        /\ resolveDisputeErr(bot, id, 4000, 4000) = "InvalidSplit"
        /\ resolveDisputeErr(bot, id, 6000, 4000) = "ok"

\* The step is a call on trade id, or one of the transfers of its settlement.
OperationOn(id) ==
    \/ tradeCount = id - 1 /\ tradeCount' = id
    \/ \E s \in Callers :
          \/ markDelivered(s, id)
          \/ approveDelivery(s, id)
          \/ releaseAfterTimeout(s, id)
          \/ \E r \in Addr : openDispute(s, id, r)
          \/ \E b \in ShareBps, c \in ShareBps : resolveDispute(s, id, b, c)
    \/ InFlight /\ tx.id = id /\ tx' # tx /\ failures' = failures

\* What the bot's calls on an existing trade return is given by that trade's own
\* fields, the clock and the reentrancy guard.
OutcomeByOwnFields ==
    \A id \in Ids :
        LET t == trades[id]
        IN  ValidId(id) =>
              /\ markDeliveredErr(bot, id)
                     = (IF t.status = "Funded" THEN "ok" ELSE "InvalidState")
              /\ \A r \in Addr :
                    openDisputeErr(bot, id, r)
                       = (IF t.status # "Delivered" THEN "InvalidState"
                          ELSE IF r = t.buyer \/ r = t.seller THEN "ok" ELSE "InvalidParty")
              /\ ~guardEntered =>
                    /\ approveDeliveryErr(bot, id)
                           = (IF t.status = "Delivered" THEN "ok" ELSE "InvalidState")
                    /\ releaseAfterTimeoutErr(bot, id)
                           = (IF t.status # "Delivered" THEN "InvalidState"
                              ELSE IF now < t.deliveryTimestamp + 86400
                                   THEN "TimeoutNotReached" ELSE "ok")
                    /\ \A b \in ShareBps, c \in ShareBps :
                          resolveDisputeErr(bot, id, b, c)
                             = (IF t.status # "Disputed" THEN "InvalidState"
                                ELSE IF b + c # 10000 THEN "InvalidSplit" ELSE "ok")

\* C20: a call on trade A, the transfers of A's settlement and the undoing of A's
\* failed settlement leave the record and the books of every other trade B as they
\* were; a step that leaves A's record alone leaves the outcome of every call on A
\* as it was, whatever it does to B.
C20_Independence ==
    [][/\ OutcomeByOwnFields /\ OutcomeByOwnFields'
       /\ \A A \in Ids :
            /\ OperationOn(A) =>
                  \A B \in Ids \ {A} : trades'[B] = trades[B] /\ ledger'[B] = ledger[B]
            /\ (InFlight /\ tx.id = A /\ failures' # failures) =>
                  \A B \in Ids \ {A} :
                      /\ trades'[B] = tx.snap.trades[B]
                      /\ ledger'[B] = tx.snap.ledger[B]
            /\ (ValidId(A) /\ trades'[A] = trades[A]) =>
                  /\ markDeliveredErr(bot, A)' = markDeliveredErr(bot, A)
                  /\ \A r \in Addr : openDisputeErr(bot, A, r)' = openDisputeErr(bot, A, r)
                  /\ guardEntered' = guardEntered =>
                        /\ approveDeliveryErr(bot, A)' = approveDeliveryErr(bot, A)
                        /\ \A b \in ShareBps, c \in ShareBps :
                              resolveDisputeErr(bot, A, b, c)' = resolveDisputeErr(bot, A, b, c)
                        /\ now' = now =>
                              releaseAfterTimeoutErr(bot, A)' = releaseAfterTimeoutErr(bot, A)
      ]_vars

\* C20 witness: trade 2 has been delivered, disputed, failed a settlement and been
\* resolved, while trade 1 is still as it was funded.
C20_Witness ==
    /\ tradeCount = 2 /\ Settled(2) /\ failures[2] > 0 /\ HasEvent(2, "Refunded")
    /\ trades[1].status = "Funded" /\ trades[1].deliveryTimestamp = 0
    /\ ledger[1].valueSent = held
    /\ markDeliveredErr(bot, 1) = "ok"

CountEvents(id, name) == Cardinality({k \in 1..Len(events[id]) : events[id][k].name = name})

\* What address a has been sent for trades 1..n, by the books of the trades.
RECURSIVE BookedTo(_, _)
BookedTo(a, n) ==
    IF n < 1 THEN 0
    ELSE (IF trades[n].buyer = a THEN ledger[n].buyer ELSE 0)
         + (IF trades[n].seller = a THEN ledger[n].seller ELSE 0)
         + (IF bot = a THEN ledger[n].bot ELSE 0)
         + (IF feeReceiver = a THEN ledger[n].feeReceiver ELSE 0)
         + BookedTo(a, n - 1)

\* C21: a trade settled after any number of settlements that failed on a transfer
\* has paid what a settlement succeeding at once pays: seller amount - fee (or the
\* floored shares of it to buyer and seller), the operator and the fee receiver
\* each their two fee shares once; every address has been sent exactly that, and
\* the fee split and payout events are in the log once.
C21_RetrySafety ==
    /\ \A a \in Addr : ~InFlight => received[a] = BookedTo(a, tradeCount)
    /\ \A id \in Ids :
          Settled(id) =>
            LET amount == trades[id].amount
                fee == (amount * 250) \div 10000
                l == ledger[id]
            IN  /\ l.settled = 1
                /\ l.bot = 2 * ((fee * 100) \div 500)
                /\ l.feeReceiver = 2 * fee - 2 * ((fee * 100) \div 500)
                /\ HasEvent(id, "SellerFeeSplit") =>
                      /\ l.seller = amount - fee /\ l.buyer = 0
                      /\ CountEvents(id, "SellerFeeSplit") = 1
                      /\ CountEvents(id, "Released") = 1
                      /\ CountEvents(id, "Approved") <= 1
                /\ ~HasEvent(id, "SellerFeeSplit") =>
                      /\ CountEvents(id, "Refunded") = 1
                      /\ CountEvents(id, "Released") = 1
                      /\ \E b \in ShareBps :
                            /\ l.buyer = ((amount - fee) * b) \div 10000
                            /\ l.seller = ((amount - fee) * (10000 - b)) \div 10000

\* C21 witness: a trade of 1000 approved at the second attempt: bob has 975, the
\* bot 10 and the fee receiver 40.
C21_Witness ==
    \E id \in Ids :
        /\ Settled(id) /\ failures[id] > 0 /\ HasEvent(id, "Approved")
        /\ trades[id].amount = 1000
        /\ received["bob"] = 975 /\ received[bot] = 10 /\ received[feeReceiver] = 40

\* C22: while a settlement is making its transfers, the trade it settles is
\* Completed and both its pending fees are 0 in storage.
C22_StateBeforeTransfers ==
    InFlight =>
        /\ tx.op \in {"approveDelivery", "releaseAfterTimeout", "resolveDispute"}
        /\ trades[tx.id].status = "Completed"
        /\ trades[tx.id].pendingBotFee = 0
        /\ trades[tx.id].pendingfeeReceiverFee = 0

\* C22 witness: the seller of a trade of 1000 has been paid and the transfer to the
\* bot is being made: the trade, Delivered with pending fees 5 and 20 before the
\* call, is Completed with none.
C22_Witness ==
    /\ InFlight /\ Head(tx.legs).role = "bot" /\ ledger[tx.id].seller = 975
    /\ tx.snap.trades[tx.id].status = "Delivered"
    /\ tx.snap.trades[tx.id].pendingBotFee = 5
    /\ trades[tx.id].status = "Completed" /\ trades[tx.id].pendingBotFee = 0

\* Every call on the trade being settled is refused.
SettlingRefused ==
    InFlight =>
        \A s \in Callers :
            /\ markDeliveredErr(s, tx.id) # "ok"
            /\ approveDeliveryErr(s, tx.id) # "ok"
            /\ releaseAfterTimeoutErr(s, tx.id) # "ok"
            /\ \A r \in Addr : openDisputeErr(s, tx.id, r) # "ok"
            /\ \A b \in ShareBps, c \in ShareBps : resolveDisputeErr(s, tx.id, b, c) # "ok"
            /\ markDeliveredErr(bot, tx.id) = "InvalidState"
            /\ \A r \in Addr : openDisputeErr(bot, tx.id, r) = "InvalidState"

\* C23: while the settlement of a trade is making its transfers, every call on
\* that trade fails, markDelivered and openDispute by the bot included, and no step
\* but the undoing of the settlement changes the trade.
C23_NoInterleaving ==
    [][/\ SettlingRefused /\ SettlingRefused'
       /\ InFlight =>
            /\ \A s \in Callers :
                  /\ ~markDelivered(s, tx.id)
                  /\ \A r \in Addr : ~openDispute(s, tx.id, r)
            /\ failures' = failures => trades'[tx.id] = trades[tx.id]
      ]_vars

\* C23 witness: the transfer to the bot is being made, the bot being the seller of
\* the trade as well; its markDelivered and openDispute on the trade are refused.
C23_Witness ==
    /\ InFlight /\ Head(tx.legs).to = bot
    /\ trades[tx.id].seller = bot
    /\ markDeliveredErr(bot, tx.id) = "InvalidState"
    /\ openDisputeErr(bot, tx.id, bot) = "InvalidState"

HasLeg(legs, role) == \E k \in 1..Len(legs) : legs[k].role = role

\* C24: resolveDispute makes the transfer to the buyer (to the seller) exactly when
\* that payout is > 0, and always makes the transfers to the bot and to the fee
\* receiver, of 0 too; no transfer of a resolution to buyer or seller is of 0, so a
\* party with payout 0 is never called and cannot make the resolution fail.
C24_ZeroValueLegs ==
    [][/\ \A id \in Ids, b \in ShareBps, c \in ShareBps :
            resolveDispute(bot, id, b, c) =>
                LET d == trades[id].amount - (trades[id].amount * 250) \div 10000
                    buyerPayout == (d * b) \div 10000
                    sellerPayout == (d * c) \div 10000
                IN  /\ HasLeg(tx'.legs, "buyer") <=> buyerPayout > 0
                    /\ HasLeg(tx'.legs, "seller") <=> sellerPayout > 0
                    /\ HasLeg(tx'.legs, "bot") /\ HasLeg(tx'.legs, "feeReceiver")
                    /\ Len(tx'.legs) = 2 + (IF buyerPayout > 0 THEN 1 ELSE 0)
                                         + (IF sellerPayout > 0 THEN 1 ELSE 0)
       /\ (InFlight /\ tx.op = "resolveDispute") =>
            /\ \A k \in 1..Len(tx.legs) :
                  tx.legs[k].role \in {"buyer", "seller"} => tx.legs[k].value > 0
            /\ HasLeg(tx.legs, "feeReceiver")
            /\ failures' # failures =>
                  (Head(tx.legs).role \in {"buyer", "seller"} => Head(tx.legs).value > 0)
      ]_vars

\* C24 witness: a dispute over 10 is being resolved 0/10000: the first transfer is
\* the seller's, and transfers of 0 to the bot and to the fee receiver follow.
C24_Witness ==
    /\ InFlight /\ tx.op = "resolveDispute"
    /\ tx.legs = << Leg("seller", "bob", 10), Leg("bot", bot, 0),
                    Leg("feeReceiver", feeReceiver, 0) >>

RoleRank(role) ==
    CASE role = "buyer" -> 1
      [] role = "seller" -> 2
      [] role = "bot" -> 3
      [] role = "feeReceiver" -> 4

\* The transfers still to make are in the order buyer, seller, bot, fee receiver,
\* and what has been sent went to recipients before the next one in that order.
InOrder ==
    InFlight =>
        /\ \A k \in 1..(Len(tx.legs) - 1) :
              RoleRank(tx.legs[k].role) < RoleRank(tx.legs[k + 1].role)
        /\ tx.legs[Len(tx.legs)].role = "feeReceiver"
        /\ Len(tx.legs) >= 2 => tx.legs[Len(tx.legs) - 1].role = "bot"
        /\ \A role \in {"buyer", "seller", "bot", "feeReceiver"} :
              ledger[tx.id][role] > 0 => RoleRank(role) < RoleRank(Head(tx.legs).role)

\* C25: a normal settlement makes its transfers in the order seller, bot, fee
\* receiver, a dispute resolution in the order buyer, seller, bot, fee receiver;
\* each accepted transfer is the next in that order, and a failing one ends the
\* settlement with nothing sent and no later transfer made.
C25_TransferOrdering ==
    [][/\ InOrder /\ InOrder'
       /\ (~InFlight /\ InFlight') =>
            /\ PaidOf(ledger'[tx'.id]) = 0
            /\ tx'.op # "resolveDispute" =>
                  /\ Len(tx'.legs) = 3
                  /\ tx'.legs[1].role = "seller" /\ tx'.legs[1].to = trades[tx'.id].seller
                  /\ tx'.legs[2].to = bot /\ tx'.legs[3].to = feeReceiver
       /\ (InFlight /\ failures' = failures /\ tx' # tx) =>
            LET leg == Head(tx.legs)
            IN  /\ ledger' = [ledger EXCEPT ![tx.id][leg.role] = @ + leg.value,
                                             ![tx.id].settled = ledger'[tx.id].settled]
                /\ received' = [received EXCEPT ![leg.to] = @ + leg.value]
                /\ InFlight' => tx'.legs = Tail(tx.legs)
                /\ ~InFlight' => Len(tx.legs) = 1
       /\ failures' # failures =>
            /\ ~InFlight'
            /\ received' = tx.snap.received /\ held' = tx.snap.held
            /\ PaidOf(ledger'[tx.id]) = 0
      ]_vars

\* C25 witness: in a dispute resolution buyer and seller have been paid, the bot
\* and the fee receiver not yet.
C25_Witness ==
    /\ InFlight /\ tx.op = "resolveDispute" /\ Len(tx.legs) = 2
    /\ ledger[tx.id].buyer > 0 /\ ledger[tx.id].seller > 0
    /\ ledger[tx.id].bot = 0 /\ ledger[tx.id].feeReceiver = 0
    /\ Head(tx.legs).role = "bot"

\* The address a transfer for `role` of trade id goes to.
RecipientOf(id, role) ==
    CASE role = "buyer" -> trades[id].buyer
      [] role = "seller" -> trades[id].seller
      [] role = "bot" -> bot
      [] role = "feeReceiver" -> feeReceiver

\* C26: a settled trade has in its log, for the transfer to the seller, to the bot
\* and to the fee receiver (and to the buyer, when one was made), an event with
\* that recipient and the amount sent to it.
C26_LegEvents ==
    \A id \in Ids :
        Settled(id) =>
            \A role \in {"buyer", "seller", "bot", "feeReceiver"} :
                (ledger[id][role] > 0 \/ role \in {"bot", "feeReceiver"}) =>
                    \E k \in 1..Len(events[id]) :
                        /\ events[id][k].who = RecipientOf(id, role)
                        /\ events[id][k].amount = ledger[id][role]

\* What the contract holds of the value attached to trade id.
Retained(id) == ledger[id].valueSent - PaidOut(id)

\* C27: a resolveDispute with shares summing to 10000 sends buyer and seller
\* together distributable or distributable - 1; the unit not sent is in the
\* contract's balance when the resolution has returned, and stays there: the books
\* of a settled trade never change, the balance is the sum of what is retained of
\* each trade, and no trade has been paid more than was attached to it.
C27_Dust ==
    [][/\ \A id \in Ids, b \in ShareBps, c \in ShareBps :
            resolveDispute(bot, id, b, c) =>
                LET d == trades[id].amount - (trades[id].amount * 250) \div 10000
                IN  LegValue(tx'.legs, "buyer") + LegValue(tx'.legs, "seller") \in {d - 1, d}
       /\ \A id \in Ids :
            Settled(id) =>
                LET d == trades[id].amount - (trades[id].amount * 250) \div 10000
                IN  /\ Retained(id) \in {0, 1}
                    /\ Retained(id) = d - (ledger[id].buyer + ledger[id].seller)
                    /\ ledger'[id] = ledger[id]
                    /\ Settled(id)'
       /\ held = RetainedTo(tradeCount)
       /\ held' = RetainedTo(tradeCount)'
       /\ \A id \in Ids : Retained(id) >= 0 /\ Retained(id)' >= 0
      ]_vars

\* C27 witness: of two settled trades the first left one unit behind and the
\* second none: the balance of the contract is that unit.
C27_Witness ==
    /\ tradeCount = 2 /\ ~InFlight /\ Settled(1) /\ Settled(2)
    /\ Retained(1) = 1 /\ Retained(2) = 0
    /\ held = 1

\* What trades 1..n that are not Completed hold: amount and pending fees.
RECURSIVE OwedTo(_)
OwedTo(n) ==
    IF n < 1 THEN 0
    ELSE (IF trades[n].status # "Completed"
          THEN trades[n].amount + trades[n].pendingBotFee + trades[n].pendingfeeReceiverFee
          ELSE 0)
         + OwedTo(n - 1)

RECURSIVE LegSum(_)
LegSum(legs) == IF legs = <<>> THEN 0 ELSE Head(legs).value + LegSum(Tail(legs))

\* C28: the contract's balance is at least amount + pendingBotFee +
\* pendingfeeReceiverFee summed over the trades that are not Completed, and while a
\* settlement is making its transfers it covers the transfers still to make on top
\* of that: no transfer lacks funds or draws on what another trade holds.
C28_Solvency ==
    /\ held >= OwedTo(tradeCount) + (IF InFlight THEN LegSum(tx.legs) ELSE 0)
    /\ InFlight => held >= Head(tx.legs).value

\* C28 witness: the last transfer of the settlement of one trade is being made
\* while the other trade is Disputed and holds its 1000 + 25.
C28_Witness ==
    /\ InFlight /\ Len(tx.legs) = 1 /\ tradeCount = 2
    /\ \E id \in Ids :
          /\ id # tx.id /\ trades[id].status = "Disputed" /\ trades[id].amount = 1000
          /\ held >= 1025 + Head(tx.legs).value

\* C29: whichever call settles a trade, the bot is sent 2 * floor(fee * 100 / 500)
\* and the fee receiver the rest of 2 * fee, fee = floor(amount * 250 / 10000);
\* resolveDispute(id, 0, 10000) makes the very transfers of approveDelivery, and
\* resolveDispute(id, 10000, 0) sends the buyer amount - fee, nothing of the fee
\* paid at funding.
C29_PathIndependentFees ==
    [][\A id \in Ids :
        LET t == trades[id]
            fee == (t.amount * 250) \div 10000
            botAmount == 2 * ((fee * 100) \div 500)
            normal == << Leg("seller", t.seller, t.amount - fee),
                         Leg("bot", bot, botAmount),
                         Leg("feeReceiver", feeReceiver, 2 * fee - botAmount) >>
        IN  /\ (approveDelivery(bot, id) \/ releaseAfterTimeout(bot, id)) => tx'.legs = normal
            /\ resolveDispute(bot, id, 0, 10000) => tx'.legs = normal
            /\ resolveDispute(bot, id, 10000, 0) =>
                  tx'.legs = << Leg("buyer", t.buyer, t.amount - fee),
                                Leg("bot", bot, botAmount),
                                Leg("feeReceiver", feeReceiver, 2 * fee - botAmount) >>
            /\ \A b \in ShareBps, c \in ShareBps :
                  resolveDispute(bot, id, b, c) =>
                      /\ LegValue(tx'.legs, "bot") = botAmount
                      /\ LegValue(tx'.legs, "feeReceiver") = 2 * fee - botAmount
            /\ (InFlight /\ tx.id = id /\ ~InFlight' /\ failures' = failures) =>
                  /\ ledger'[id].bot = botAmount
                  /\ ledger'[id].feeReceiver = 2 * fee - botAmount
                  /\ ledger'[id].buyer <= t.amount - fee
      ]_vars

\* C29 witness: a dispute over 1000 resolved 10000/0: the buyer, who paid 1025, has
\* 975 back, the bot 10 and the fee receiver 40, as after approveDelivery.
C29_Witness ==
    \E id \in Ids :
        /\ Settled(id) /\ trades[id].amount = 1000
        /\ ledger[id].buyer = 975 /\ ledger[id].seller = 0
        /\ ledger[id].bot = 10 /\ ledger[id].feeReceiver = 40

\* Which of a dispute and a release the bot may call, by the status alone.
RaceDecided ==
    \A id \in Ids :
        LET t == trades[id]
        IN  ValidId(id) =>
              /\ t.status = "Delivered" =>
                    /\ openDisputeErr(bot, id, t.buyer) = "ok"
                    /\ openDisputeErr(bot, id, t.seller) = "ok"
              /\ (t.status = "Disputed" /\ ~guardEntered) =>
                    /\ releaseAfterTimeoutErr(bot, id) = "InvalidState"
                    /\ approveDeliveryErr(bot, id) = "InvalidState"
              /\ t.status = "Completed" =>
                    \A r \in Addr : openDisputeErr(bot, id, r) = "InvalidState"

\* C30: openDispute is accepted on a Delivered trade at any time, also from
\* deliveryTimestamp + 86400 on; on a Disputed trade releaseAfterTimeout and
\* approveDelivery fail with InvalidState at any time; for a Delivered trade past
\* its timeout both calls are open, and the one made first makes the other fail.
C30_DisputeTimeoutRace ==
    [][/\ RaceDecided /\ RaceDecided'
       /\ \A id \in Ids :
            LET t == trades[id]
            IN  (ValidId(id) /\ t.status = "Delivered" /\ ~guardEntered
                   /\ now >= t.deliveryTimestamp + 86400) =>
                  /\ releaseAfterTimeoutErr(bot, id) = "ok"
                  /\ (\E r \in Addr : openDispute(bot, id, r)) =>
                        /\ trades'[id].status = "Disputed"
                        /\ releaseAfterTimeoutErr(bot, id)' = "InvalidState"
                  /\ releaseAfterTimeout(bot, id) =>
                        /\ trades'[id].status = "Completed"
                        /\ \A r \in Addr : openDisputeErr(bot, id, r)' = "InvalidState"
      ]_vars

\* C30 witness: a trade delivered at 1 is Disputed at 3 + 86400, past its timeout,
\* and releaseAfterTimeout is refused.
C30_Witness ==
    \E id \in Ids :
        /\ trades[id].status = "Disputed" /\ ~InFlight
        /\ trades[id].deliveryTimestamp = 1 /\ now = 3 + 86400
        /\ releaseAfterTimeoutErr(bot, id) = "InvalidState"

\* The settlement of the trade returns successfully in this step.
Completes(id) ==
    /\ InFlight /\ tx.id = id
    /\ ~InFlight' /\ trades'[id].status = "Completed"

\* The transaction in flight is undone in this step: the trades are as they were.
Undone == InFlight /\ ~InFlight' /\ trades' = tx.snap.trades /\ held' = tx.snap.held

\* A Disputed trade can be resolved wholly in the buyer's favour by the bot, and
\* that resolution makes no transfer to the seller.
FullRefundOpen ==
    \A id \in 1..tradeCount :
        (trades[id].status = "Disputed" /\ ~guardEntered) =>
            /\ resolveDisputeErr(bot, id, 10000, 0) = "ok"
            /\ ~HasLeg(ResolveLegs(trades[id], 10000, 0), "seller")

\* C31 as stated: where the seller rejects every transfer, a release (approveDelivery
\* or releaseAfterTimeout) of a Delivered trade is undone at its first transfer and
\* the trade is Delivered again; a Disputed trade accepts resolveDispute(id, 10000, 0),
\* and a trade completes only by a resolution with shares 10000 and 0, which refunds
\* the buyer the whole of amount - floor(amount * 250 / 10000).
C31_OnlyFullRefund ==
    [][/\ FullRefundOpen /\ FullRefundOpen'
       /\ \A id \in 1..tradeCount :
            /\ (InFlight /\ tx.id = id
                   /\ tx.op \in {"approveDelivery", "releaseAfterTimeout"}) =>
                  /\ Head(tx.legs).to = trades[id].seller
                  /\ Undone
                  /\ trades'[id].status = "Delivered"
            /\ Completes(id) =>
                  /\ tx.op = "resolveDispute"
                  /\ tx.done[1].amount = trades[id].amount - FeeOf(trades[id].amount)
                  /\ tx.done[2].amount = 0
      ]_vars

\* What does hold of a rejecting seller: a release (approveDelivery or
\* releaseAfterTimeout) of a Delivered trade is undone at its first transfer and the
\* trade is Delivered again; a Disputed trade accepts resolveDispute(id, 10000, 0),
\* which sends the seller nothing, and a trade completes only by a resolution whose
\* seller payout floor((amount - floor(amount * 250 / 10000)) * sellerShareBps / 10000)
\* is 0, the seller having been sent nothing.
ZeroSellerPayoutOnly ==
    [][/\ FullRefundOpen /\ FullRefundOpen'
       /\ \A id \in 1..tradeCount :
            /\ (InFlight /\ tx.id = id
                   /\ tx.op \in {"approveDelivery", "releaseAfterTimeout"}) =>
                  /\ Head(tx.legs).to = trades[id].seller
                  /\ Undone
                  /\ trades'[id].status = "Delivered"
            /\ Completes(id) =>
                  /\ tx.op = "resolveDispute"
                  /\ tx.done[2].amount = 0
                  /\ ledger'[id].seller = 0
                  /\ received'[trades[id].seller] = 0
      ]_vars

\* The full refund reached: the trade of 1000 with the rejecting seller bob is Completed, a
\* settlement of it having failed before: the dispute was resolved 10000 to 0 and
\* the buyer was refunded 975.
FullRefundReached ==
    /\ Settled(1) /\ trades[1].seller = "bob" /\ trades[1].amount = 1000
    /\ failures[1] > 0
    /\ HasEvent(1, "Disputed") /\ HasEvent(1, "Refunded")
    /\ ledger[1].buyer = 975 /\ ledger[1].seller = 0 /\ received["bob"] = 0

\* C32: where the fee receiver, or the bot, rejects every transfer (of zero value
\* too), no trade is ever Completed once its transaction has ended, no settlement
\* returns, and between transactions nothing has been paid out: the contract holds
\* all the value attached at funding.
C32_FeeRecipientRejects ==
    \A id \in 1..tradeCount :
        /\ CommittedStatus(id) # "Completed"
        /\ ledger[id].settled = 0
        /\ ~InFlight =>
              /\ trades[id].status # "Completed"
              /\ PaidOut(id) = 0
              /\ \A a \in Addr : received[a] = 0
              /\ held = RetainedTo(tradeCount)
              /\ held = ledger[id].valueSent

\* C32 witness: a settlement of the trade of 1 has failed before, and another has
\* paid the seller and the bot and is making its transfer of 0 to the fee receiver.
C32_Witness ==
    /\ InFlight /\ tx.id = 1 /\ failures[1] > 0
    /\ trades[1].amount = 1
    /\ Head(tx.legs).to = feeReceiver /\ Head(tx.legs).value = 0
    /\ held = 0 /\ received["bob"] = 1

\* While a settlement makes its transfers the lock is taken, and each of the four
\* locked operations fails for every caller and every id: ReentrantCall for the bot
\* (and for any funder), OnlyBot for the others.
LockRefuses ==
    InFlight =>
        /\ guardEntered
        /\ \A s \in Callers, i \in Ids :
              LET e == IF s = bot THEN "ReentrantCall" ELSE "OnlyBot"
              IN  /\ approveDeliveryErr(s, i) = e
                  /\ releaseAfterTimeoutErr(s, i) = e
                  /\ \A b \in ShareBps, c \in ShareBps : resolveDisputeErr(s, i, b, c) = e
        /\ \A s \in Callers, a \in Sellers, m \in Amounts, d \in {-1, 0, 1} :
              m + FeeOf(m) + d >= 0 =>
                  createAndFundTradeErr(s, a, m, m + FeeOf(m) + d) = "ReentrantCall"

\* While a settlement makes its transfers the bot's markDelivered on another trade
\* that is Funded, and its openDispute on another trade that is Delivered, pass.
UnlockedOpen ==
    InFlight =>
        \A j \in 1..tradeCount :
            j # tx.id =>
                /\ trades[j].status = "Funded" => markDeliveredErr(bot, j) = "ok"
                /\ trades[j].status = "Delivered" =>
                      \A r \in {trades[j].buyer, trades[j].seller} :
                          openDisputeErr(bot, j, r) = "ok"

\* C33: during the transfers of approveDelivery, releaseAfterTimeout or
\* resolveDispute a call of any of these or of createAndFundTrade fails for every
\* trade id and no step is such a call; the bot's markDelivered or openDispute on
\* another trade in the required status passes, and when the transaction ends the
\* other trades and their events are as those calls left them if the settlement
\* has completed, and as they were before the transaction if it has not.
C33_GlobalLock ==
    [][/\ LockRefuses /\ LockRefuses'
       /\ UnlockedOpen /\ UnlockedOpen'
       /\ InFlight =>
             /\ tx.op \in {"approveDelivery", "releaseAfterTimeout", "resolveDispute"}
             /\ tradeCount' = tradeCount
             /\ InFlight' => (tx'.id = tx.id /\ tx'.op = tx.op /\ tx'.snap = tx.snap)
             /\ \A j \in 1..tradeCount :
                   (j # tx.id /\ ~InFlight') =>
                       IF Completes(tx.id)
                       THEN trades'[j] = trades[j] /\ events'[j] = events[j]
                       ELSE /\ trades'[j] = tx.snap.trades[j]
                            /\ events'[j] = tx.snap.events[j]
      ]_vars

\* C33 witness: the settlement of trade 1 is making its last transfer; trade 2,
\* Funded when the transaction began, has been marked delivered and put in dispute
\* by calls made during the transfers.
C33_Witness ==
    /\ InFlight /\ tx.id = 1 /\ Len(tx.legs) = 1
    /\ tx.snap.trades[2].status = "Funded"
    /\ trades[2].status = "Disputed"
    /\ HasEvent(2, "Delivered") /\ HasEvent(2, "Disputed")
    /\ approveDeliveryErr(bot, 2) = "ReentrantCall"

\* ---- status codes and the text shown for them ----
\* The value of a member of the contract's enum TradeStatus: its position.
TradeStatusValue(status) ==
    CASE status = "Created" -> 0
      [] status = "Funded" -> 1
      [] status = "Delivered" -> 2
      [] status = "Completed" -> 3
      [] status = "Cancelled" -> 4
      [] status = "Disputed" -> 5

\* The table of bot/utils/escrow.js.
TradeStatus ==
    [Created |-> 0, Funded |-> 1, Delivered |-> 2, Completed |-> 3, Disputed |-> 4]

\* getStatusText of bot/utils/escrow.js: a switch over the table, UNKNOWN by default.
getStatusText(status) ==
    CASE status = TradeStatus.Created -> "CREATED"
      [] status = TradeStatus.Funded -> "FUNDED"
      [] status = TradeStatus.Delivered -> "DELIVERED"
      [] status = TradeStatus.Completed -> "COMPLETED"
      [] status = TradeStatus.Disputed -> "DISPUTED"
      [] OTHER -> "UNKNOWN"

\* The names of utils/blockchain by code (TradeStatus and TradeStatusNames there).
TradeStatusNames ==
    [code \in 0..5 |->
        CASE code = 0 -> "CREATED"
          [] code = 1 -> "FUNDED"
          [] code = 2 -> "DELIVERED"
          [] code = 3 -> "COMPLETED"
          [] code = 4 -> "CANCELLED"
          [] code = 5 -> "DISPUTED"]

\* The text of a status: its name in capitals.
TextOf(status) ==
    CASE status = "Created" -> "CREATED"
      [] status = "Funded" -> "FUNDED"
      [] status = "Delivered" -> "DELIVERED"
      [] status = "Completed" -> "COMPLETED"
      [] status = "Cancelled" -> "CANCELLED"
      [] status = "Disputed" -> "DISPUTED"

\* The table of utils/blockchain does give every trade the text of its status.
BlockchainNamesMatch ==
    \A id \in 1..tradeCount :
        TradeStatusNames[TradeStatusValue(trades[id].status)] = TextOf(trades[id].status)

\* C34 as stated: for every trade, in whatever status it holds (Funded, Delivered,
\* Completed, Disputed), getStatusText of the numeric code the contract exposes for
\* that status is the text of the same status; a Disputed trade shows as DISPUTED.
C34_StatusText ==
    \A id \in 1..tradeCount :
        getStatusText(TradeStatusValue(trades[id].status)) = TextOf(trades[id].status)
====
